---- MODULE Spec2Model ----
(***************************************************************************)
(* Model of the playback-ordering core of suno-radio-bot                   *)
(* (src/src/cogs/music.py, class MusicCog): the per-guild queue, the       *)
(* play_next state machine with its asyncio lock, the idle-radio autofill  *)
(* task, admission control and the commands that drive them.               *)
(*                                                                         *)
(* Every coroutine is cut at its await points: one action runs the code    *)
(* between two awaits, as the asyncio event loop does.  The voice client's *)
(* player thread contributes PlayerEnd (the source ran out) and            *)
(* AfterPlaying (the `after` callback).                                    *)
(***************************************************************************)
EXTENDS Integers, Sequences, FiniteSets, TLC

(* ---- bounds of the model ---- *)
NumGuilds == 2      \* guild ids 1..NumGuilds (Spec activates guild 1 only)
NumUsers  == 1      \* requester ids 1..NumUsers
NumPN     == 2      \* play_next invocations alive at once
NumAF     == 2      \* autofill tasks alive at once
NumCmd    == 2      \* multi-await commands in flight at once
MaxTracks == 3      \* tracks ever created
MaxBatch  == 2      \* tracks one scrape / one autofill fill returns
MaxOps    == 2      \* commands issued in one run
MaxCap    == 4      \* largest per-add limit the admission helpers are called with

(* ---- program constants (scaled environment defaults) ---- *)
AUTOFILL_FEATURE            == TRUE
QUEUE_LIMIT_DEFAULT_ENABLED == TRUE
QUEUE_LIMIT_MAX_PER_ADD     == 2
QUEUE_MAX_PER_USER          == 1
REMOVE_NP_AFTER_SONGS       == 2
AUTOFILL_MAX_PULL           == 2
DEFAULT_VOLUME              == 100   \* percent
FADE_IN_STEPS               == 2
BotUser                     == 0     \* self.bot.user.id, the autofill requester
Unlimited                   == 1000000000   \* remaining_user_slots of an admin

None    == "None"   \* Python None, where the other values are strings
NoTask  == 0        \* None as a task handle
Guilds == 1..NumGuilds
Users  == 1..NumUsers
Admins == {u \in Users : u > 1}   \* _is_admin: user 1 is a regular member
PNIds  == 1..NumPN
AFIds  == 1..NumAF
CmdIds == 1..NumCmd

VARIABLES
  active,               \* guilds the bot serves in this run
  queues,               \* self.queues[gid]: sequence of tracks
  saved,                \* data/guild_<gid>.json as save_data last wrote it
  current_song,         \* self.current_song (one field of the cog, not per guild)
  song_start_time,      \* self.song_start_time (likewise)
  voice,                \* ctx.voice_client is not None
  vc_play,              \* the track the voice client is playing, or None
  afterq,               \* tracks whose `after` callback has not run yet
  auto_play_tasks,      \* self.auto_play_tasks[gid]: task handle or None
  af,                   \* the autofill tasks (_autofill_after_delay)
  play_locks,           \* self._play_locks[gid].locked()
  pn,                   \* the play_next invocations
  cmd,                  \* commands suspended at an await
  song_index,           \* self._song_index[gid]
  np_track,             \* self._np_track[gid]
  fadeout_active,       \* self._fadeout_active[gid]
  auto_play_enabled,    \* self.auto_play_enabled[gid]
  auto_playlist_urls,   \* self.auto_playlist_urls[gid] is set
  autofill_seed_rows,   \* self.autofill_seed_rows[gid] is non-empty
  queue_limit_enabled,  \* self.queue_limit_enabled.get(gid, default)
  queue_limit_max,      \* self.queue_limit_max.get(gid, default)
  queue_per_user_max,   \* self.queue_per_user_max.get(gid, default)
  nextId,               \* next fresh track id
  ops,                  \* commands the run may still issue
  out,                  \* what the last step sent or called, per guild
  user_mappings,        \* self.user_mappings[gid]["queue_limit"], as saved with it
  ret,                  \* the call of a helper made by the last step, with its result
  selected_index,       \* QueueManagerView.selected_index of the guild's panel
  selected_song,        \* the track the panel's user chose in the song dropdown
  volumes,              \* self.volumes[gid], in percent
  sink_volume,          \* volume of the transformer the voice client plays, in percent
  fade_in               \* the _fade_in_volume task of the guild's last started track

vars == <<active, queues, saved, current_song, song_start_time, voice, vc_play,
          afterq, auto_play_tasks, af, play_locks, pn, cmd, song_index,
          np_track, fadeout_active, auto_play_enabled, auto_playlist_urls,
          autofill_seed_rows, queue_limit_enabled, queue_limit_max,
          queue_per_user_max, nextId, ops, out, user_mappings, ret,
          selected_index, selected_song, volumes, sink_volume, fade_in>>

(* ---- records ---- *)
(* song["duration"] as the extractor left it: None, a number, a string of
   numbers separated by colons ("3:20" is <<3, 20>>), or another text *)
DurNone       == [kind |-> "none",  v |-> 0, parts |-> <<>>]
DurInt(n)     == [kind |-> "int",   v |-> n, parts |-> <<>>]
DurClock(ps)  == [kind |-> "clock", v |-> 0, parts |-> ps]
DurText       == [kind |-> "text",  v |-> 0, parts |-> <<>>]

(* a track; its duration is one unit unless a specification says otherwise *)
Track(id, isAf, req) ==
  [id |-> id, autofill |-> isAf, requester_id |-> req, duration |-> DurInt(1)]

NoTrack == Track(0, FALSE, 0)     \* None where a track is expected

FreePN  == [pc |-> "free", g |-> 0, owner |-> 0, direct |-> FALSE, song |-> NoTrack]
FreeAF  == [pc |-> "free", g |-> 0, cancel |-> FALSE, stale |-> FALSE]
FreeCmd == [pc |-> "free", g |-> 0, kind |-> None, user |-> 0, slots |-> 0, n |-> 0]

(* user_mappings[gid] without a "queue_limit" entry *)
NoEntry == [set |-> FALSE, enabled |-> FALSE, max |-> 0, per_user_max |-> 0]

(* no helper call to report *)
NoCall == [fn |-> None]

NoOut == [g \in Guilds |-> {}]
Out(g, S) == [NoOut EXCEPT ![g] = S]

(* pcs of play_next at which the invocation holds the lock *)
SectionPcs == {"lost_send", "prefetch", "fail_send", "prebuffer", "np_send"}

Min(a, b) == IF a <= b THEN a ELSE b
Max(a, b) == IF a >= b THEN a ELSE b

RECURSIVE SeqFilterAf(_)
(* the tracks of q that are not autofill-tagged, in order *)
SeqFilterAf(q) ==
  IF q = <<>> THEN <<>>
  ELSE IF Head(q).autofill THEN SeqFilterAf(Tail(q))
       ELSE <<Head(q)>> \o SeqFilterAf(Tail(q))

(* n fresh tracks with ids first, first+1, ... *)
NewTracks(first, n, isAf, req) == [k \in 1..n |-> Track(first + k - 1, isAf, req)]

(* every track a run can create *)
AllTracks == {Track(id, isAf, IF isAf THEN BotUser ELSE u) :
                id \in 1..MaxTracks, isAf \in BOOLEAN, u \in Users}

LowestFree(S) == CHOOSE x \in S : \A y \in S : x <= y
FreePNs  == {i \in PNIds : pn[i].pc = "free"}
FreeAFs  == {t \in AFIds : af[t].pc = "free"}
FreeCmds == {c \in CmdIds : cmd[c].pc = "free"}

(* groups of variables, for UNCHANGED *)
limitVars   == <<queue_limit_enabled, queue_limit_max, queue_per_user_max>>
sourceVars  == <<auto_play_enabled, auto_playlist_urls, autofill_seed_rows>>
npVars      == <<song_index, np_track>>
currentVars == <<current_song, song_start_time>>
viewVars == <<selected_index, selected_song>>
volVars == <<volumes, sink_volume, fade_in>>
harnessVars == <<user_mappings, ret, viewVars, volVars>>

(* ---- persistence (src/data/persistence.py) ---- *)
(* a guild id as a key of a Python dict (an int) and as a name of a JSON
   object (json.dump writes the int as a string, json.load returns the string) *)
IntKey(g) == <<"int", g>>
StrKey(g) == <<"str", g>>

(* a per-guild table of the cog as the Python dict it is, keyed by guild id *)
AsDict(f) == [k \in {IntKey(g) : g \in Guilds} |-> f[k[2]]]

(* a dict keyed by ints after json.dump and json.load *)
JsonObject(d) == [k \in {StrKey(x[2]) : x \in DOMAIN d} |-> d[IntKey(k[2])]]

(* the content of data/guild_<gid>.json that save_data(gid, self.queues,
   self.playlists, self.user_mappings) writes, as json.load reads it back *)
save_data(qs, maps) ==
  [queues |-> JsonObject(AsDict(qs)), user_mappings |-> JsonObject(AsDict(maps))]

(* load_data(gid) on that file: the tables keyed as the file keys them *)
load_data(file) == [queues |-> file.queues, user_mappings |-> file.user_mappings]

(* what the guild's file holds under the guild's id *)
SavedQueue(g) == saved[g].queues[StrKey(g)]

(* QueueManagerView.__init__: a panel on which nothing is selected *)
NoIndex == <<>>

InitView ==
  /\ selected_index = [g \in Guilds |-> NoIndex]
  /\ selected_song = [g \in Guilds |-> NoTrack.id]

(* no fade-in task; target: the volume it ramps to, i: the steps it has made *)
NoFade == [on |-> FALSE, target |-> 0, i |-> 0]

(* self.volumes is a defaultdict of DEFAULT_VOLUME; nothing plays yet *)
InitSink ==
  /\ volumes = [g \in Guilds |-> DEFAULT_VOLUME]
  /\ sink_volume = [g \in Guilds |-> 0]
  /\ fade_in = [g \in Guilds |-> NoFade]

(* ---- MusicCog.__init__ / cog_load, with the run's budget of commands ---- *)
(* the fields of a new cog that no command has touched yet, and the run's
   budget of commands *)
InitFields(guilds, budget) ==
  /\ active = guilds
  /\ current_song = NoTrack
  /\ song_start_time = None
  /\ voice = [g \in Guilds |-> FALSE]
  /\ vc_play = [g \in Guilds |-> NoTrack]
  /\ afterq = [g \in Guilds |-> {}]
  /\ auto_play_tasks = [g \in Guilds |-> NoTask]
  /\ af = [t \in AFIds |-> FreeAF]
  /\ play_locks = [g \in Guilds |-> FALSE]
  /\ pn = [i \in PNIds |-> FreePN]
  /\ cmd = [c \in CmdIds |-> FreeCmd]
  /\ song_index = [g \in Guilds |-> 0]
  /\ np_track = [g \in Guilds |-> <<>>]
  /\ fadeout_active = [g \in Guilds |-> FALSE]
  /\ auto_play_enabled = [g \in Guilds |-> g \in active]
  /\ auto_playlist_urls \in [Guilds -> BOOLEAN]
  /\ \A g \in Guilds \ active : ~auto_playlist_urls[g]
  /\ autofill_seed_rows = [g \in Guilds |-> FALSE]
  /\ nextId = 1
  /\ ops = budget
  /\ out = NoOut
  /\ ret = NoCall
  /\ InitView
  /\ InitSink

(* the rate limits of a cog on which no queue_limit command has run *)
InitLimits ==
  /\ queue_limit_enabled = [g \in Guilds |-> QUEUE_LIMIT_DEFAULT_ENABLED]
  /\ queue_limit_max = [g \in Guilds |-> QUEUE_LIMIT_MAX_PER_ADD]
  /\ queue_per_user_max = [g \in Guilds |-> QUEUE_MAX_PER_USER]

InitCogFor(guilds, budget) ==
  /\ InitFields(guilds, budget)
  /\ InitLimits
  /\ queues = [g \in Guilds |-> <<>>]
  /\ user_mappings = [g \in Guilds |-> NoEntry]
  /\ saved = [g \in Guilds |->
                save_data([h \in Guilds |-> <<>>], [h \in Guilds |-> NoEntry])]

(* the bot serves guild 1 *)
InitCog(budget) == InitCogFor({1}, budget)

Init == InitCog(MaxOps)

(* ---- admission control ---- *)
_is_admin(u) == u \in Admins

RECURSIVE _count_user_queued(_, _)
(* _count_user_queued(gid, user_id, include_filler=False) over the queue q:
   the loop skips the autofill-tagged tracks and counts the requester's *)
_count_user_queued(q, u) ==
  IF q = <<>> THEN 0
  ELSE IF Head(q).autofill THEN _count_user_queued(Tail(q), u)
  ELSE (IF Head(q).requester_id = u THEN 1 ELSE 0) + _count_user_queued(Tail(q), u)

(* remaining slots without the clamp at zero *)
SlotsUnclamped(q, cap, u) == cap - _count_user_queued(q, u)

(* _user_slots_remaining for a guild whose queue is q and whose cap is cap *)
_user_slots_remaining(q, cap, u) == Max(0, cap - _count_user_queued(q, u))

(* the notices of _enforce_queue_add_limit, as the pieces of their text *)
NoNotice == <<>>

(* a notice that always uses the template *)
TemplateOnly(cap) ==
  <<"You can only enter up to **", cap, "** songs at a time into the queue.">>

(* `if cap == 3: msg = "..." else: msg = f"...{cap}..."` *)
LimitNotice(cap) ==
  IF cap = 3 THEN <<"You can only enter 3 songs at a time into the queue.">>
  ELSE <<"You can only enter up to **", cap, "** songs at a time into the queue.">>

(* _enforce_queue_add_limit(gid, intended_count, bypass): <<allowed, notice>> *)
_enforce_queue_add_limit(g, intended, bypass) ==
  IF bypass \/ ~queue_limit_enabled[g] THEN <<intended, NoNotice>>
  ELSE IF intended <= queue_limit_max[g] THEN <<intended, NoNotice>>
  ELSE <<queue_limit_max[g], LimitNotice(queue_limit_max[g])>>

(* an optional number: <<>> is Python's None, <<n>> the number n *)
NoNumber == <<>>

(* _duration_to_seconds(d): total seconds, or None if unknown *)
_duration_to_seconds(d) ==
  IF d.kind = "none" THEN NoNumber
  ELSE IF d.kind = "int" THEN <<Max(0, d.v)>>
  ELSE IF d.kind = "text" THEN NoNumber
  ELSE IF Len(d.parts) = 3
       THEN <<Max(0, d.parts[1] * 3600 + d.parts[2] * 60 + d.parts[3])>>
  ELSE IF Len(d.parts) = 2 THEN <<Max(0, d.parts[1] * 60 + d.parts[2])>>
  ELSE IF Len(d.parts) = 1 THEN <<Max(0, d.parts[1])>>
  ELSE NoNumber

RECURSIVE EtaAhead(_, _)
(* the loop `for t in ahead` of _estimate_eta_seconds, run on the state
   acc = <<eta, had_unknown, had_known>> *)
EtaAhead(ahead, acc) ==
  IF ahead = <<>> THEN acc
  ELSE LET td == _duration_to_seconds(Head(ahead).duration)
       IN EtaAhead(Tail(ahead),
                   IF td = NoNumber THEN <<acc[1], TRUE, acc[3]>>
                   ELSE <<acc[1] + td[1], acc[2], TRUE>>)

(* _estimate_eta_seconds(gid, position) called when the clock is `elapsed`
   seconds past song_start_time: <<eta or None, had_unknown>> *)
_estimate_eta_seconds(g, position, elapsed) ==
  LET cur_dur == _duration_to_seconds(current_song.duration)
      first == IF current_song /= NoTrack /\ song_start_time /= None
               THEN IF cur_dur = NoNumber THEN <<0, TRUE, FALSE>>
                    ELSE <<Max(0, cur_dur[1] - Max(0, elapsed)), FALSE, TRUE>>
               ELSE <<0, FALSE, FALSE>>
      q     == queues[g]
      ahead == SubSeq(q, 1, Min(Len(q), Max(0, position - 1)))
      acc   == EtaAhead(ahead, first)
  IN IF ~acc[3] /\ acc[2] THEN <<NoNumber, TRUE>>
     ELSE <<<<acc[1]>>, acc[2]>>

RECURSIVE EtaList(_, _)
(* the loop `for t in q` of _queue_eta_list, run on acc (a number or None) *)
EtaList(q, acc) ==
  IF q = <<>> THEN <<>>
  ELSE LET d == _duration_to_seconds(Head(q).duration)
       IN <<acc>> \o EtaList(Tail(q),
                             IF d = NoNumber THEN NoNumber
                             ELSE IF acc /= NoNumber THEN <<acc[1] + d[1]>>
                             ELSE acc)

(* _queue_eta_list(gid) called when the clock is `elapsed` seconds past
   song_start_time: one entry, seconds or None, for each queued track *)
_queue_eta_list(g, elapsed) ==
  LET playing == current_song /= NoTrack /\ song_start_time /= None
      cur     == _duration_to_seconds(current_song.duration)
  IN IF playing /\ cur = NoNumber
     THEN [k \in 1..Len(queues[g]) |-> NoNumber]
     ELSE EtaList(queues[g],
                  <<IF playing THEN Max(0, cur[1] - Max(0, elapsed)) ELSE 0>>)

(* ---- autofill helpers ---- *)
_is_autofill_enabled(g) ==
  /\ AUTOFILL_FEATURE
  /\ auto_play_enabled[g]
  /\ (auto_playlist_urls[g] \/ autofill_seed_rows[g])

(* _cancel_autofill_task: cancel() the task the handle names, drop the handle *)
_cancel_autofill_task(a, h, g) ==
  << [t \in AFIds |->
        IF a[t].pc /= "free" /\ h[g] = t THEN [a[t] EXCEPT !.cancel = TRUE] ELSE a[t]],
     [h EXCEPT ![g] = NoTask] >>

(* a schedule that never starts a task *)
ScheduleNothing(a, h, g) == <<a, h>>

(* _schedule_autofill_if_idle on the pair <<tasks, handles>> *)
_schedule_autofill_if_idle(a, h, g) ==
  IF h[g] /= NoTask THEN <<a, h>>
  ELSE IF ~_is_autofill_enabled(g) THEN <<a, h>>
  ELSE LET t == LowestFree({x \in AFIds : a[x].pc = "free"})
       IN << [a EXCEPT ![t] = [pc |-> "sleep", g |-> g, cancel |-> FALSE, stale |-> FALSE]],
             [h EXCEPT ![g] = t] >>

(* the model can run the schedule: a task slot is free if one is needed *)
CanSchedule(a, h, g) ==
  h[g] /= NoTask \/ ~_is_autofill_enabled(g) \/ \E x \in AFIds : a[x].pc = "free"

_clear_autofill_from_queue(q) == SeqFilterAf(q)

(* the `finally` of _autofill_after_delay, run when task t ends *)
AfFinally(a, h, t) ==
  << [a EXCEPT ![t] = FreeAF], [h EXCEPT ![a[t].g] = NoTask] >>

(* ---- scheduling ---- *)
(* task.cancel() makes the task runnable at once: its CancelledError is
   delivered before any coroutine that waits for I/O or a timer resumes *)
CancelPending == \E t \in AFIds : af[t].pc /= "free" /\ af[t].cancel

(* a coroutine that awaited play_next with the lock free has not suspended:
   it is the one that runs next *)
DirectPending == \E i \in PNIds : pn[i].pc = "wait" /\ pn[i].direct

(* a member issues a command (the run has a budget of commands) *)
Budget(g) ==
  g \in active /\ ~CancelPending /\ ~DirectPending /\ ops > 0 /\ ops' = ops - 1

Issue(g) == Budget(g) /\ UNCHANGED harnessVars

(* a suspended coroutine resumes, or a callback posted to the loop runs *)
Resume == ~CancelPending /\ ~DirectPending /\ UNCHANGED <<ops, harnessVars>>

(* play_next resumes around voice_client.play, where it sets the volume state *)
ResumePlay ==
  ~CancelPending /\ ~DirectPending /\ UNCHANGED <<ops, user_mappings, ret, viewVars>>

(* play_next invocation i gets to `async with lock` *)
Enter(i) ==
  ~CancelPending /\ (DirectPending => pn[i].direct) /\ UNCHANGED <<ops, harnessVars>>

(* ---- join ---- *)
Join(g) ==
  /\ Issue(g)
  /\ LET c == _cancel_autofill_task(af, auto_play_tasks, g)
         idle == queues[g] = <<>> /\ vc_play[g] = NoTrack
     IN /\ idle => CanSchedule(c[1], c[2], g)
        /\ LET s == IF idle THEN _schedule_autofill_if_idle(c[1], c[2], g)
                    ELSE <<af, auto_play_tasks>>
           IN af' = s[1] /\ auto_play_tasks' = s[2]
  /\ voice' = [voice EXCEPT ![g] = TRUE]
  /\ out' = Out(g, IF queues[g] = <<>> /\ vc_play[g] = NoTrack THEN {"schedule"} ELSE {})
  /\ UNCHANGED <<active, queues, saved, currentVars, vc_play, afterq, play_locks, pn, cmd,
                 npVars, fadeout_active, sourceVars, limitVars, nextId>>

(* ---- autofill_set / autofill_unset ---- *)
AutofillSet(g) ==
  /\ Issue(g)
  /\ AUTOFILL_FEATURE
  /\ auto_playlist_urls' = [auto_playlist_urls EXCEPT ![g] = TRUE]
  /\ auto_play_enabled' = [auto_play_enabled EXCEPT ![g] = TRUE]
  /\ saved' = [saved EXCEPT ![g] = save_data(queues, user_mappings)]
  /\ out' = NoOut
  /\ UNCHANGED <<active, queues, currentVars, voice, vc_play, afterq, auto_play_tasks, af,
                 play_locks, pn, cmd, npVars, fadeout_active, autofill_seed_rows,
                 limitVars, nextId>>

AutofillUnset(g) ==
  /\ Issue(g)
  /\ auto_playlist_urls[g]
  /\ auto_playlist_urls' = [auto_playlist_urls EXCEPT ![g] = FALSE]
  /\ saved' = [saved EXCEPT ![g] = save_data(queues, user_mappings)]
  /\ out' = NoOut
  /\ UNCHANGED <<active, queues, currentVars, voice, vc_play, afterq, auto_play_tasks, af,
                 play_locks, pn, cmd, npVars, fadeout_active, auto_play_enabled,
                 autofill_seed_rows, limitVars, nextId>>

(* ---- the guild's asyncio.Lock (self._play_locks[gid]) ---- *)
(* a lock that never blocks *)
LockNeverHeld(g) == TRUE

(* `async with lock` enters only when the lock is not held *)
LockAcquirable(g) == ~play_locks[g]

(* play_next started by loop.create_task: it first runs on a later iteration *)
PnTask(g) == [pc |-> "wait", g |-> g, owner |-> 0, direct |-> FALSE, song |-> NoTrack]

(* play_next awaited by the coroutine `owner` (0: a command, t: autofill task
   t): Lock.acquire() does not suspend when the lock is free, so the caller
   runs on into the section at once (direct) *)
PnCall(g, owner) ==
  [pc |-> "wait", g |-> g, owner |-> owner, direct |-> LockAcquirable(g), song |-> NoTrack]

(* a lock released by hand on the normal return only *)
LockReleaseOnReturn(locks, g, how) ==
  IF how = "return" THEN [locks EXCEPT ![g] = FALSE] ELSE locks

(* __aexit__ of `async with lock`: runs however the block is left
   (how: "return", "raise" or "cancel") *)
LockAexit(locks, g, how) == [locks EXCEPT ![g] = FALSE]

(* an invocation that never returns *)
PnStay(i, how, next) == UNCHANGED <<pn, play_locks, af, auto_play_tasks>>

(* play_next invocation i ends: the lock is released if it was held, and an
   autofill task that was awaiting it runs its `finally` *)
PnLeave(i, how, next) ==
  LET g == pn[i].g
      t == pn[i].owner
  IN /\ pn' = [pn EXCEPT ![i] = next]
     /\ play_locks' = IF pn[i].pc \in SectionPcs
                      THEN LockAexit(play_locks, g, how) ELSE play_locks
     /\ IF t > 0
        THEN LET f == AfFinally(af, auto_play_tasks, t)
             IN af' = f[1] /\ auto_play_tasks' = f[2]
        ELSE UNCHANGED <<af, auto_play_tasks>>

OwnerCancelled(i) == pn[i].owner > 0 /\ af[pn[i].owner].cancel

(* deque.pop(): the track at the right end and the rest *)
pop(q) == <<q[Len(q)], SubSeq(q, 1, Len(q) - 1)>>

(* `song = queue.popleft()`: the track at the front and the rest *)
popleft(q) == <<Head(q), Tail(q)>>

(* play_next, from `async with lock` to the first await *)
PnAcquire(i) ==
  LET g == pn[i].g IN
  /\ Enter(i)
  /\ pn[i].pc = "wait"
  /\ ~OwnerCancelled(i)
  /\ LockAcquirable(g)
  /\ IF queues[g] = <<>>
     THEN /\ PnLeave(i, "return", FreePN)
          /\ out' = Out(g, {"pn_empty"})
          /\ UNCHANGED queues
     ELSE IF ~voice[g]
     THEN /\ pn' = [pn EXCEPT ![i].pc = "lost_send", ![i].direct = FALSE]
          /\ play_locks' = [play_locks EXCEPT ![g] = TRUE]
          /\ out' = Out(g, {})
          /\ UNCHANGED <<queues, af, auto_play_tasks>>
     ELSE /\ pn' = [pn EXCEPT ![i].pc = "prefetch", ![i].direct = FALSE,
                                ![i].song = popleft(queues[g])[1]]
          /\ queues' = [queues EXCEPT ![g] = popleft(@)[2]]
          /\ play_locks' = [play_locks EXCEPT ![g] = TRUE]
          /\ out' = Out(g, {"dequeue"})
          /\ UNCHANGED <<af, auto_play_tasks>>
  /\ UNCHANGED <<active, saved, currentVars, voice, vc_play, afterq, cmd, npVars,
                 fadeout_active, sourceVars, limitVars, nextId>>

(* the "Connection Lost" branch: the notice is sent (ok) or the send raises *)
PnLostDone(i, ok) ==
  LET g == pn[i].g IN
  /\ Resume
  /\ pn[i].pc = "lost_send"
  /\ ~OwnerCancelled(i)
  /\ IF ok
     THEN /\ current_song' = NoTrack
          /\ song_start_time' = None
          /\ PnLeave(i, "return", FreePN)
          /\ out' = Out(g, {"conn_lost"})
     ELSE /\ PnLeave(i, "raise", FreePN)
          /\ out' = Out(g, {})
          /\ UNCHANGED currentVars
  /\ UNCHANGED <<active, queues, saved, voice, vc_play, afterq, cmd, npVars,
                 fadeout_active, sourceVars, limitVars, nextId>>

(* after maybe_prefetch: FFmpegPCMAudio(...) opens (ok) or raises; on success
   target_vol is read from self.volumes, the transformer is muted (0.0001,
   here 0) and voice_client.play(...) starts the track, or raises when the
   client is gone or is already playing; fade_in keeps target_vol until the
   ramp is created after the pre-buffer sleep *)
PnPrefetchDone(i, ok) ==
  LET g == pn[i].g IN
  /\ ResumePlay
  /\ pn[i].pc = "prefetch"
  /\ ~OwnerCancelled(i)
  /\ IF ~ok
     THEN /\ pn' = [pn EXCEPT ![i].pc = "fail_send"]
          /\ out' = Out(g, {"open_failed"})
          /\ UNCHANGED <<vc_play, play_locks, af, auto_play_tasks, volVars>>
     ELSE IF ~voice[g] \/ vc_play[g] /= NoTrack
     THEN /\ PnLeave(i, "raise", FreePN)
          /\ out' = Out(g, {"open", "play_raised"})
          /\ UNCHANGED <<vc_play, volVars>>
     ELSE /\ pn' = [pn EXCEPT ![i].pc = "prebuffer"]
          /\ vc_play' = [vc_play EXCEPT ![g] = pn[i].song]
          /\ sink_volume' = [sink_volume EXCEPT ![g] = 0]
          /\ fade_in' = [fade_in EXCEPT ![g] = [on |-> FALSE, target |-> volumes[g], i |-> 0]]
          /\ out' = Out(g, {"open", "play_started"})
          /\ UNCHANGED <<play_locks, af, auto_play_tasks, volumes>>
  /\ UNCHANGED <<active, queues, saved, currentVars, voice, afterq, cmd, npVars,
                 fadeout_active, sourceVars, limitVars, nextId>>

(* after the pre-buffer sleep: the fade-in task is created with the
   target_vol read before the sleep and writes its initial volume; songIndex, current_song, song_start_time *)
PnPrebufferDone(i) ==
  LET g == pn[i].g IN
  /\ ResumePlay
  /\ pn[i].pc = "prebuffer"
  /\ ~OwnerCancelled(i)
  /\ fade_in' = [fade_in EXCEPT ![g].on = TRUE]
  /\ sink_volume' = [sink_volume EXCEPT ![g] = 0]
  /\ UNCHANGED volumes
  /\ song_index' = [song_index EXCEPT ![g] = @ + 1]
  /\ current_song' = pn[i].song
  /\ song_start_time' = "t"
  /\ pn' = [pn EXCEPT ![i].pc = "np_send"]
  /\ out' = Out(g, {})
  /\ UNCHANGED <<active, queues, saved, voice, vc_play, afterq, auto_play_tasks, af,
                 play_locks, cmd, np_track, fadeout_active, sourceVars, limitVars, nextId>>

(* a test that prunes the old entries of every kind *)
OldEntry(e, cur) == (cur - e.song_index) >= REMOVE_NP_AFTER_SONGS

(* `if e.get("is_autofill") and (current_idx - e.get("song_index", ...)) >=
   self._np_retention_n`: delete the message, do not keep the entry *)
Prunable(e, cur) == e.is_autofill /\ (cur - e.song_index) >= REMOVE_NP_AFTER_SONGS

RECURSIVE PruneNp(_, _)
(* the `keep` list of _cleanup_np_autofill *)
PruneNp(entries, cur) ==
  IF entries = <<>> THEN <<>>
  ELSE LET e == Head(entries) IN
       IF Prunable(e, cur)
       THEN PruneNp(Tail(entries), cur)
       ELSE <<e>> \o PruneNp(Tail(entries), cur)

_cleanup_np_autofill(entries, cur) ==
  IF REMOVE_NP_AFTER_SONGS <= 0 \/ entries = <<>> THEN entries
  ELSE PruneNp(entries, cur)

(* the now-playing card is posted (ok), recorded and the log pruned, or the
   send raises *)
PnNpSent(i, ok) ==
  LET g == pn[i].g IN
  /\ Resume
  /\ pn[i].pc = "np_send"
  /\ ~OwnerCancelled(i)
  /\ IF ok
     THEN /\ np_track' = [np_track EXCEPT ![g] =
                 _cleanup_np_autofill(
                   Append(@, [song_index |-> song_index[g],
                              is_autofill |-> pn[i].song.autofill]),
                   song_index[g])]
          /\ PnLeave(i, "return", FreePN)
          /\ out' = Out(g, {"np_posted"})
     ELSE /\ PnLeave(i, "raise", FreePN)
          /\ out' = Out(g, {})
          /\ UNCHANGED np_track
  /\ UNCHANGED <<active, queues, saved, currentVars, voice, vc_play, afterq, cmd,
                 song_index, fadeout_active, sourceVars, limitVars, nextId>>

(* an open failure that ends the invocation without a retry *)
NoRetryAfterFailure(g) == FALSE

(* `if queue and ctx.voice_client:` before create_task(self.play_next(ctx)) *)
RetryAfterFailure(g) == queues[g] /= <<>> /\ voice[g]

(* the open failed and the "Playback Error" notice went out (or its send failed,
   which is swallowed): retry the rest of the queue in a new task *)
PnFailSent(i) ==
  LET g == pn[i].g
      retry == RetryAfterFailure(g)
  IN
  /\ Resume
  /\ pn[i].pc = "fail_send"
  /\ ~OwnerCancelled(i)
  /\ PnLeave(i, "return",
             IF retry THEN PnTask(g)
             ELSE FreePN)
  /\ out' = Out(g, {"fail_notice"} \cup (IF retry THEN {"retry"} ELSE {}))
  /\ UNCHANGED <<active, queues, saved, currentVars, voice, vc_play, afterq, cmd,
                 npVars, fadeout_active, sourceVars, limitVars, nextId>>

(* CancelledError is thrown into an autofill task suspended inside play_next *)
PnCancelled(i) ==
  /\ UNCHANGED <<ops, harnessVars>>
  /\ pn[i].pc /= "free"
  /\ OwnerCancelled(i)
  /\ PnLeave(i, "cancel", FreePN)
  /\ out' = Out(pn[i].g, {})
  /\ UNCHANGED <<active, queues, saved, currentVars, voice, vc_play, afterq, cmd,
                 npVars, fadeout_active, sourceVars, limitVars, nextId>>

(* ---- the autofill task: _autofill_after_delay ---- *)
(* a re-check that looks at the queue only *)
AfQueueEmpty(g) == queues[g] = <<>>

(* `if self.queues[gid] or self.current_song: return`, negated *)
AfIdle(g) == queues[g] = <<>> /\ current_song = NoTrack

(* the delay is over: re-check, then start the fill or end silently *)
AfTimerFire(t) ==
  LET g == af[t].g IN
  /\ Resume
  /\ af[t].pc = "sleep"
  /\ ~af[t].cancel
  /\ IF ~AfIdle(g)
     THEN /\ LET f == AfFinally(af, auto_play_tasks, t)
             IN af' = f[1] /\ auto_play_tasks' = f[2]
          /\ out' = Out(g, {"af_fire"})
     ELSE IF ~_is_autofill_enabled(g)
     THEN /\ LET f == AfFinally(af, auto_play_tasks, t)
             IN af' = f[1] /\ auto_play_tasks' = f[2]
          /\ out' = Out(g, {"af_fire"})
     ELSE /\ af' = [af EXCEPT ![t].pc = "fill"]
          /\ out' = Out(g, {"af_fire", "af_fill"})
          /\ UNCHANGED auto_play_tasks
  /\ UNCHANGED <<active, queues, saved, currentVars, voice, vc_play, afterq, play_locks,
                 pn, cmd, npVars, fadeout_active, sourceVars, limitVars, nextId>>

(* _enqueue_autofill_batch returns having appended n tracks; hand off to
   play_next when something was added and the voice client is there *)
AfFillDone(t, n) ==
  LET g == af[t].g
      handoff == n > 0 /\ voice[g]
  IN
  /\ Resume
  /\ af[t].pc = "fill"
  /\ ~af[t].cancel
  /\ nextId + n - 1 <= MaxTracks
  /\ handoff => FreePNs /= {}
  /\ queues' = [queues EXCEPT ![g] = @ \o NewTracks(nextId, n, TRUE, BotUser)]
  /\ saved' = IF n > 0 THEN [saved EXCEPT ![g] = save_data(queues', user_mappings)] ELSE saved
  /\ nextId' = nextId + n
  /\ IF handoff
     THEN /\ af' = [af EXCEPT ![t].pc = "play_next"]
          /\ pn' = [pn EXCEPT ![LowestFree(FreePNs)] =
                      PnCall(g, t)]
          /\ out' = Out(g, {"af_append", "af_handoff"})
          /\ UNCHANGED auto_play_tasks
     ELSE /\ LET f == AfFinally(af, auto_play_tasks, t)
             IN af' = f[1] /\ auto_play_tasks' = f[2]
          /\ out' = Out(g, IF n > 0 THEN {"af_append"} ELSE {"af_nothing"})
          /\ UNCHANGED pn
  /\ UNCHANGED <<active, currentVars, voice, vc_play, afterq, play_locks, cmd, npVars,
                 fadeout_active, sourceVars, limitVars>>

(* CancelledError reaches a task that sleeps or fills *)
AfCancelled(t) ==
  /\ UNCHANGED <<ops, harnessVars>>
  /\ af[t].pc \in {"sleep", "fill"}
  /\ af[t].cancel
  /\ LET f == AfFinally(af, auto_play_tasks, t)
     IN af' = f[1] /\ auto_play_tasks' = f[2]
  /\ out' = Out(af[t].g, {})
  /\ UNCHANGED <<active, queues, saved, currentVars, voice, vc_play, afterq, play_locks,
                 pn, cmd, npVars, fadeout_active, sourceVars, limitVars, nextId>>

(* ---- the voice client's player ---- *)
(* voice_client.stop(): the player ends, its `after` callback is due *)
VcStopPlay(g) == [vc_play EXCEPT ![g] = NoTrack]
VcStopAfter(g) == IF vc_play[g] = NoTrack THEN afterq
                  ELSE [afterq EXCEPT ![g] = @ \cup {vc_play[g]}]

(* the source ran out *)
PlayerEnd(g) ==
  /\ UNCHANGED <<ops, harnessVars>>
  /\ vc_play[g] /= NoTrack
  /\ vc_play' = VcStopPlay(g)
  /\ afterq' = VcStopAfter(g)
  /\ out' = Out(g, {})
  /\ UNCHANGED <<active, queues, saved, currentVars, voice, auto_play_tasks, af,
                 play_locks, pn, cmd, npVars, fadeout_active, sourceVars, limitVars, nextId>>

(* after_playing(error) of the track s, with what it posts to the loop *)
AfterPlaying(g, s) ==
  LET again == queues[g] /= <<>> /\ voice[g]
      empty == queues[g] = <<>>
  IN
  /\ Resume
  /\ s \in afterq[g]
  /\ afterq' = [afterq EXCEPT ![g] = @ \ {s}]
  /\ current_song' = NoTrack
  /\ song_start_time' = None
  /\ again => FreePNs /= {}
  /\ (~again /\ empty) => CanSchedule(af, auto_play_tasks, g)
  /\ IF again
     THEN /\ pn' = [pn EXCEPT ![LowestFree(FreePNs)] =
                      PnTask(g)]
          /\ out' = Out(g, {"after_playing", "spawn"})
          /\ UNCHANGED <<af, auto_play_tasks>>
     ELSE IF empty
     THEN /\ LET sc == _schedule_autofill_if_idle(af, auto_play_tasks, g)
             IN af' = sc[1] /\ auto_play_tasks' = sc[2]
          /\ out' = Out(g, {"after_playing", "queue_empty", "schedule"})
          /\ UNCHANGED pn
     ELSE /\ out' = Out(g, {"after_playing"})
          /\ UNCHANGED <<pn, af, auto_play_tasks>>
  /\ UNCHANGED <<active, queues, saved, voice, vc_play, play_locks, cmd, npVars,
                 fadeout_active, sourceVars, limitVars, nextId>>

(* ---- commands ---- *)
(* the cancellation that play, playlist, stop and leave run.  `stale` is a
   history field: the task existed when a member's action ran its cancellation. *)
HumanCancel(g) ==
  LET c == _cancel_autofill_task(af, auto_play_tasks, g)
  IN << [t \in AFIds |->
           IF c[1][t].pc /= "free" /\ c[1][t].g = g
           THEN [c[1][t] EXCEPT !.stale = TRUE] ELSE c[1][t]],
        c[2] >>

(* play <url>: up to the await of the "added" card.  Without a voice client
   the command first invokes join; the task join schedules is cancelled by
   the command before it ever runs. *)
PlayUrl(g, u) ==
  LET c     == HumanCancel(g)
      q1    == _clear_autofill_from_queue(queues[g])
      slots == IF _is_admin(u) THEN Unlimited
               ELSE _user_slots_remaining(q1, queue_per_user_max[g], u)
  IN
  /\ Issue(g)
  /\ voice' = [voice EXCEPT ![g] = TRUE]
  /\ af' = c[1]
  /\ auto_play_tasks' = c[2]
  /\ IF slots <= 0
     THEN /\ queues' = [queues EXCEPT ![g] = q1]
          /\ out' = Out(g, {"deny"})
          /\ UNCHANGED <<saved, cmd, nextId>>
     ELSE /\ FreeCmds /= {}
          /\ nextId <= MaxTracks
          /\ queues' = [queues EXCEPT ![g] = Append(q1, Track(nextId, FALSE, u))]
          /\ saved' = [saved EXCEPT ![g] = save_data(queues', user_mappings)]
          /\ nextId' = nextId + 1
          /\ cmd' = [cmd EXCEPT ![LowestFree(FreeCmds)] =
                       [pc |-> "sent", g |-> g, kind |-> "play_url", user |-> u,
                        slots |-> 0, n |-> 1]]
          /\ out' = Out(g, {"human_append"})
  /\ UNCHANGED <<active, currentVars, vc_play, afterq, play_locks, pn, npVars,
                 fadeout_active, sourceVars, limitVars>>

(* play (no url) and playlist <url>: up to the await of the scrape *)
BulkBegin(g, u, kind) ==
  LET c     == HumanCancel(g)
      q1    == _clear_autofill_from_queue(queues[g])
      slots == IF kind = "playlist" THEN 0
               ELSE IF _is_admin(u) THEN Unlimited
               ELSE _user_slots_remaining(q1, queue_per_user_max[g], u)
  IN
  /\ Issue(g)
  /\ voice' = [voice EXCEPT ![g] = TRUE]
  /\ FreeCmds /= {}
  /\ af' = c[1]
  /\ auto_play_tasks' = c[2]
  /\ queues' = [queues EXCEPT ![g] = q1]
  /\ cmd' = [cmd EXCEPT ![LowestFree(FreeCmds)] =
               [pc |-> "scrape", g |-> g, kind |-> kind, user |-> u,
                slots |-> slots, n |-> 0]]
  /\ out' = Out(g, {})
  /\ UNCHANGED <<active, saved, currentVars, vc_play, afterq, play_locks, pn,
                 npVars, fadeout_active, sourceVars, limitVars, nextId>>

PlayBlank(g, u) == BulkBegin(g, u, "play_blank")
Playlist(g, u)  == BulkBegin(g, u, "playlist")

(* how many of the n scraped tracks the command goes on to resolve *)
AllowedTotal(c, n) ==
  LET g == cmd[c].g
      byAdd == _enforce_queue_add_limit(g, n, _is_admin(cmd[c].user))[1]
  IN IF n = 0 THEN 0
     ELSE IF cmd[c].kind = "playlist" THEN Max(0, byAdd)
     ELSE IF cmd[c].slots <= 0 THEN 0
     ELSE Max(0, Min(byAdd, cmd[c].slots))

(* the scrape returned n raw tracks *)
CmdScrapeDone(c, n) ==
  LET g == cmd[c].g
      a == AllowedTotal(c, n)
  IN
  /\ Resume
  /\ cmd[c].pc = "scrape"
  /\ IF a = 0
     THEN /\ cmd' = [cmd EXCEPT ![c] = FreeCmd]
          /\ out' = Out(g, IF n > 0 THEN {"deny"} ELSE {})
     ELSE /\ cmd' = [cmd EXCEPT ![c].pc = "resolve", ![c].n = a]
          /\ out' = Out(g, {})
  /\ UNCHANGED <<active, queues, saved, currentVars, voice, vc_play, afterq,
                 auto_play_tasks, af, play_locks, pn, npVars, fadeout_active,
                 sourceVars, limitVars, nextId>>

(* _resolve_tracks returned: stamp the requester, append, save *)
CmdResolveDone(c) ==
  LET g == cmd[c].g IN
  /\ Resume
  /\ cmd[c].pc = "resolve"
  /\ nextId + cmd[c].n - 1 <= MaxTracks
  /\ queues' = [queues EXCEPT ![g] = @ \o NewTracks(nextId, cmd[c].n, FALSE, cmd[c].user)]
  /\ saved' = [saved EXCEPT ![g] = save_data(queues', user_mappings)]
  /\ nextId' = nextId + cmd[c].n
  /\ cmd' = [cmd EXCEPT ![c].pc = "sent"]
  /\ out' = Out(g, {"human_append"})
  /\ UNCHANGED <<active, currentVars, voice, vc_play, afterq, auto_play_tasks, af,
                 play_locks, pn, npVars, fadeout_active, sourceVars, limitVars>>

(* `if not ctx.voice_client.is_playing(): await self.play_next(ctx)` *)
CmdCheckPlay(c) ==
  LET g == cmd[c].g
      start == voice[g] /\ vc_play[g] = NoTrack
  IN
  /\ Resume
  /\ cmd[c].pc = "sent"
  /\ start => FreePNs /= {}
  /\ cmd' = [cmd EXCEPT ![c] = FreeCmd]
  /\ pn' = IF start
           THEN [pn EXCEPT ![LowestFree(FreePNs)] =
                   PnCall(g, 0)]
           ELSE pn
  /\ out' = Out(g, IF start THEN {"cmd_play_next"} ELSE {})
  /\ UNCHANGED <<active, queues, saved, currentVars, voice, vc_play, afterq,
                 auto_play_tasks, af, play_locks, npVars, fadeout_active,
                 sourceVars, limitVars, nextId>>

(* _fade_out_and_stop ramps only when something plays and no ramp is running *)
FadeRamps(g) == voice[g] /\ vc_play[g] /= NoTrack /\ ~fadeout_active[g]

(* A command that sleeps in the ramp keeps in n the id of the track whose
   transformer the ramp holds (transformer = vc.source, taken before the loop);
   the vc.stop() at the end of the ramp goes to the voice client, not to it. *)

(* what a call of _fade_out_and_stop reports: it starts its ramp, or it finds
   the sink playing with the flag set and stops it at once, or nothing plays *)
FadeOut(g) ==
  IF FadeRamps(g) THEN {"fade_ramp"}
  ELSE IF voice[g] /\ vc_play[g] /= NoTrack THEN {"fade_busy"}
  ELSE {}

(* stop, after _fade_out_and_stop: clear, cancel, purge, forget the current song *)
StopClear(g) ==
  LET c == HumanCancel(g) IN
  /\ queues' = [queues EXCEPT ![g] = _clear_autofill_from_queue(<<>>)]
  /\ af' = c[1]
  /\ auto_play_tasks' = c[2]
  /\ current_song' = NoTrack
  /\ song_start_time' = None

StopBegin(g) ==
  /\ Issue(g)
  /\ FreeCmds /= {}
  /\ IF FadeRamps(g)
     THEN /\ fadeout_active' = [fadeout_active EXCEPT ![g] = TRUE]
          /\ cmd' = [cmd EXCEPT ![LowestFree(FreeCmds)] =
                       [pc |-> "fade", g |-> g, kind |-> "stop", user |-> 0,
                        slots |-> 0, n |-> vc_play[g].id]]
          /\ UNCHANGED <<queues, af, auto_play_tasks, currentVars, vc_play, afterq>>
     ELSE /\ vc_play' = VcStopPlay(g)
          /\ afterq' = VcStopAfter(g)
          /\ StopClear(g)
          /\ cmd' = [cmd EXCEPT ![LowestFree(FreeCmds)] =
                       [pc |-> "presence", g |-> g, kind |-> "stop", user |-> 0,
                        slots |-> 0, n |-> 0]]
          /\ UNCHANGED fadeout_active
  /\ out' = Out(g, FadeOut(g))
  /\ UNCHANGED <<active, saved, voice, play_locks, pn, npVars, sourceVars, limitVars, nextId>>

(* skip: fade out and stop when something plays *)
SkipBegin(g) ==
  /\ Issue(g)
  /\ voice[g] /\ vc_play[g] /= NoTrack
  /\ IF FadeRamps(g)
     THEN /\ FreeCmds /= {}
          /\ fadeout_active' = [fadeout_active EXCEPT ![g] = TRUE]
          /\ cmd' = [cmd EXCEPT ![LowestFree(FreeCmds)] =
                       [pc |-> "fade", g |-> g, kind |-> "skip", user |-> 0,
                        slots |-> 0, n |-> vc_play[g].id]]
          /\ UNCHANGED <<vc_play, afterq>>
     ELSE /\ vc_play' = VcStopPlay(g)
          /\ afterq' = VcStopAfter(g)
          /\ UNCHANGED <<fadeout_active, cmd>>
  /\ out' = Out(g, FadeOut(g))
  /\ UNCHANGED <<active, queues, saved, currentVars, voice, auto_play_tasks, af,
                 play_locks, pn, npVars, sourceVars, limitVars, nextId>>

(* a ramp that returns with the flag as it is *)
FlagKept(g, kind) == fadeout_active

(* `finally: self._fadeout_active[gid] = False`, the flags after the ramp of a
   command of this kind: whether the ramp ran to its end, left its loop at a
   failed write or went through `except Exception`, it ends here.  The ramp
   of a skip that a reload has overtaken (skip_old) clears the flag of the
   cog it belongs to, which is no longer the loaded one. *)
FadeFinally(g, kind) ==
  IF kind = "skip_old" THEN fadeout_active
  ELSE [fadeout_active EXCEPT ![g] = FALSE]

(* the fade-out ramp is over: vc.stop(), flag cleared, the command goes on *)
CmdFadeEnd(c) ==
  LET g == cmd[c].g IN
  /\ Resume
  /\ cmd[c].pc = "fade"
  /\ cmd[c].kind /= "skip_autofill"
  /\ vc_play' = VcStopPlay(g)
  /\ afterq' = VcStopAfter(g)
  /\ fadeout_active' = FadeFinally(g, cmd[c].kind)
  /\ IF cmd[c].kind = "stop"
     THEN /\ StopClear(g)
          /\ cmd' = [cmd EXCEPT ![c].pc = "presence", ![c].n = 0]
     ELSE IF cmd[c].kind = "reload"
     THEN /\ current_song' = NoTrack
          /\ song_start_time' = None
          /\ cmd' = [cmd EXCEPT ![c].pc = "rl_presence", ![c].n = 0]
          /\ UNCHANGED <<queues, af, auto_play_tasks>>
     ELSE /\ cmd' = [cmd EXCEPT ![c] = FreeCmd]
          /\ UNCHANGED <<queues, af, auto_play_tasks, currentVars>>
  /\ out' = Out(g, {"fade_done"})
  /\ UNCHANGED <<active, saved, voice, play_locks, pn, npVars, sourceVars, limitVars, nextId>>

(* ---- skip autofill ---- *)
(* a purge that empties the queue *)
PurgeAll(q) == <<<<>>, Len(q)>>

(* _purge_filler_from_queue of skip, on the queue q: <<kept, removed>> *)
_purge_filler_from_queue(q) == <<SeqFilterAf(q), Len(q) - Len(SeqFilterAf(q))>>

(* the rest of `skip autofill` after _fade_out_and_stop: purge, save when
   something was removed, and the card with the count *)
SkipPurge(g, removed_current) ==
  LET pr == _purge_filler_from_queue(queues[g]) IN
  /\ queues' = [queues EXCEPT ![g] = pr[1]]
  /\ saved' = IF pr[2] > 0 THEN [saved EXCEPT ![g] = save_data(queues', user_mappings)]
              ELSE saved
  /\ ret' = [fn |-> "purge", g |-> g, before |-> queues[g], removed |-> pr[2],
             removed_current |-> removed_current]

(* skip autofill: up to the ramp when the current track is filler and plays,
   else the whole command *)
SkipAutofill(g) ==
  LET filler == /\ current_song /= NoTrack /\ current_song.autofill
                /\ voice[g] /\ vc_play[g] /= NoTrack
  IN
  /\ Budget(g)
  /\ IF filler /\ FadeRamps(g)
     THEN /\ FreeCmds /= {}
          /\ fadeout_active' = [fadeout_active EXCEPT ![g] = TRUE]
          /\ cmd' = [cmd EXCEPT ![LowestFree(FreeCmds)] =
                       [pc |-> "fade", g |-> g, kind |-> "skip_autofill", user |-> 0,
                        slots |-> 0, n |-> vc_play[g].id]]
          /\ ret' = NoCall
          /\ out' = Out(g, FadeOut(g))
          /\ UNCHANGED <<queues, saved, vc_play, afterq>>
     ELSE /\ vc_play' = IF filler THEN VcStopPlay(g) ELSE vc_play
          /\ afterq' = IF filler THEN VcStopAfter(g) ELSE afterq
          /\ SkipPurge(g, filler)
          /\ out' = Out(g, (IF filler THEN FadeOut(g) ELSE {}) \cup {"purged"})
          /\ UNCHANGED <<fadeout_active, cmd>>
  /\ UNCHANGED <<active, currentVars, voice, auto_play_tasks, af, play_locks, pn, npVars,
                 sourceVars, limitVars, nextId, user_mappings, viewVars, volVars>>

(* the ramp of skip autofill is over: vc.stop(), flag cleared, then the purge *)
CmdSkipPurge(c) ==
  LET g == cmd[c].g IN
  /\ ~CancelPending /\ ~DirectPending
  /\ cmd[c].pc = "fade"
  /\ cmd[c].kind = "skip_autofill"
  /\ vc_play' = VcStopPlay(g)
  /\ afterq' = VcStopAfter(g)
  /\ fadeout_active' = FadeFinally(g, cmd[c].kind)
  /\ SkipPurge(g, TRUE)
  /\ cmd' = [cmd EXCEPT ![c] = FreeCmd]
  /\ out' = Out(g, {"fade_done", "purged"})
  /\ UNCHANGED <<active, currentVars, voice, auto_play_tasks, af, play_locks, pn, npVars,
                 sourceVars, limitVars, nextId, ops, user_mappings, viewVars, volVars>>

(* _clear_autofill_from_queue(gid) is called; it returns nothing *)
ClearCall(g) ==
  /\ g \in active
  /\ queues' = [queues EXCEPT ![g] = _clear_autofill_from_queue(@)]
  /\ ret' = [fn |-> "clear", g |-> g, before |-> queues[g]]
  /\ out' = Out(g, {})
  /\ UNCHANGED <<active, saved, currentVars, voice, vc_play, afterq, auto_play_tasks, af,
                 play_locks, pn, cmd, npVars, fadeout_active, sourceVars, limitVars,
                 nextId, ops, user_mappings, viewVars, volVars>>

(* stop, after change_presence: save, send, schedule the autofill *)
CmdStopFinish(c) ==
  LET g == cmd[c].g IN
  /\ Resume
  /\ cmd[c].pc = "presence"
  /\ saved' = [saved EXCEPT ![g] = save_data(queues, user_mappings)]
  /\ CanSchedule(af, auto_play_tasks, g)
  /\ LET sc == _schedule_autofill_if_idle(af, auto_play_tasks, g)
     IN af' = sc[1] /\ auto_play_tasks' = sc[2]
  /\ cmd' = [cmd EXCEPT ![c] = FreeCmd]
  /\ out' = Out(g, IF _is_autofill_enabled(g) THEN {"schedule"} ELSE {})
  /\ UNCHANGED <<active, queues, currentVars, voice, vc_play, afterq, play_locks, pn,
                 npVars, fadeout_active, sourceVars, limitVars, nextId>>

(* leave: disconnect, cancel, purge, forget the current song *)
Leave(g) ==
  LET c == HumanCancel(g) IN
  /\ Issue(g)
  /\ voice[g]
  /\ voice' = [voice EXCEPT ![g] = FALSE]
  /\ vc_play' = VcStopPlay(g)
  /\ afterq' = VcStopAfter(g)
  /\ af' = c[1]
  /\ auto_play_tasks' = c[2]
  /\ queues' = [queues EXCEPT ![g] = _clear_autofill_from_queue(@)]
  /\ current_song' = NoTrack
  /\ song_start_time' = None
  /\ out' = Out(g, {})
  /\ UNCHANGED <<active, saved, play_locks, pn, cmd, npVars, fadeout_active,
                 sourceVars, limitVars, nextId>>

(* ---- cog_load, restart and reload ---- *)
(* the state of a new MusicCog after __init__ and cog_load, which reads the
   guild files `files`; dflt: DEFAULT_AUTOFILL_URL is configured.  cog_load
   takes a guild's queue and mappings from what load_data returned only
   `if guild.id in loaded_...`, and reads no "queue_limit" entry at all. *)
CogLoad(files, dflt) ==
  LET lq(g) == load_data(files[g]).queues
      lm(g) == load_data(files[g]).user_mappings
      q  == [g \in Guilds |->
               IF g \in active /\ IntKey(g) \in DOMAIN lq(g)
               THEN lq(g)[IntKey(g)] ELSE <<>>]
      um == [g \in Guilds |->
               IF g \in active /\ IntKey(g) \in DOMAIN lm(g)
               THEN lm(g)[IntKey(g)] ELSE NoEntry]
      (* the tables when the loop over the guilds is at guild g *)
      qAt(g)  == [h \in Guilds |-> IF h <= g THEN q[h] ELSE <<>>]
      umAt(g) == [h \in Guilds |-> IF h <= g THEN um[h] ELSE NoEntry]
  IN /\ queues' = q
     /\ user_mappings' = um
     /\ saved' = [g \in Guilds |->
                    IF g \in active /\ dflt THEN save_data(qAt(g), umAt(g)) ELSE files[g]]
     /\ current_song' = NoTrack
     /\ song_start_time' = None
     /\ auto_play_tasks' = [g \in Guilds |-> NoTask]
     /\ play_locks' = [g \in Guilds |-> FALSE]
     /\ song_index' = [g \in Guilds |-> 0]
     /\ np_track' = [g \in Guilds |-> <<>>]
     /\ fadeout_active' = [g \in Guilds |-> FALSE]
     /\ auto_play_enabled' = [g \in Guilds |-> g \in active]
     /\ auto_playlist_urls' = [g \in Guilds |-> g \in active /\ dflt]
     /\ autofill_seed_rows' = [g \in Guilds |-> FALSE]
     /\ queue_limit_enabled' = [g \in Guilds |-> QUEUE_LIMIT_DEFAULT_ENABLED]
     /\ queue_limit_max' = [g \in Guilds |-> QUEUE_LIMIT_MAX_PER_ADD]
     /\ queue_per_user_max' = [g \in Guilds |-> QUEUE_MAX_PER_USER]

(* the bot process is restarted: every coroutine and voice connection is
   gone, a new cog is built and cog_load runs *)
Restart(dflt) ==
  /\ ops > 0 /\ ops' = ops - 1
  /\ CogLoad(saved, dflt)
  /\ voice' = [g \in Guilds |-> FALSE]
  /\ vc_play' = [g \in Guilds |-> NoTrack]
  /\ afterq' = [g \in Guilds |-> {}]
  /\ af' = [t \in AFIds |-> FreeAF]
  /\ pn' = [i \in PNIds |-> FreePN]
  /\ cmd' = [c \in CmdIds |-> FreeCmd]
  /\ out' = [g \in Guilds |-> IF g \in active THEN {"cog_load"} ELSE {}]
  /\ UNCHANGED <<active, nextId, ret, viewVars, volVars>>

(* reload (an administrator's command), up to its first await: the fade-out
   ramp when something plays, else change_presence *)
ReloadBegin(g) ==
  /\ Issue(g)
  /\ FreeCmds /= {}
  /\ IF FadeRamps(g)
     THEN /\ fadeout_active' = [fadeout_active EXCEPT ![g] = TRUE]
          /\ cmd' = [cmd EXCEPT ![LowestFree(FreeCmds)] =
                       [pc |-> "fade", g |-> g, kind |-> "reload", user |-> 0,
                        slots |-> 0, n |-> vc_play[g].id]]
          /\ UNCHANGED <<currentVars, vc_play, afterq>>
     ELSE /\ vc_play' = VcStopPlay(g)
          /\ afterq' = VcStopAfter(g)
          /\ current_song' = NoTrack
          /\ song_start_time' = None
          /\ cmd' = [cmd EXCEPT ![LowestFree(FreeCmds)] =
                       [pc |-> "rl_presence", g |-> g, kind |-> "reload", user |-> 0,
                        slots |-> 0, n |-> 0]]
          /\ UNCHANGED fadeout_active
  /\ out' = Out(g, FadeOut(g))
  /\ UNCHANGED <<active, queues, saved, voice, auto_play_tasks, af, play_locks, pn,
                 npVars, sourceVars, limitVars, nextId>>

(* the old cog has nothing left to run that reads or writes its fields: no
   play_next invocation, no callback due, nothing playing, no other command
   but the fade-out ramp of a skip, and no autofill task but the one the
   reload cancels.  The model follows a reload only from such a state. *)
OldCogDone(c) ==
  /\ \A i \in PNIds : pn[i] = FreePN
  /\ \A g \in Guilds : afterq[g] = {} /\ vc_play[g] = NoTrack
  /\ \A d \in CmdIds \ {c} :
       cmd[d] = FreeCmd \/ (cmd[d].pc = "fade" /\ cmd[d].kind \in {"skip", "skip_old"})
  /\ \A t \in AFIds :
       af[t].pc /= "free" => af[t].g = cmd[c].g /\ auto_play_tasks[cmd[c].g] = t

(* reload, after change_presence: clear the queue, cancel, purge, save, then
   unload_extension and load_extension, which build a new cog and run its
   cog_load without suspending *)
ReloadFinish(c, dflt) ==
  LET g == cmd[c].g
      cleared == [queues EXCEPT ![g] = _clear_autofill_from_queue(<<>>)]
  IN
  /\ cmd[c].pc = "rl_presence"
  /\ ~CancelPending /\ ~DirectPending
  /\ OldCogDone(c)
  /\ CogLoad([saved EXCEPT ![g] = save_data(cleared, user_mappings)], dflt)
  /\ af' = _cancel_autofill_task(af, auto_play_tasks, g)[1]
  /\ cmd' = [d \in CmdIds |->
               IF d = c THEN FreeCmd
               ELSE IF cmd[d].pc = "fade" THEN [cmd[d] EXCEPT !.kind = "skip_old"]
               ELSE cmd[d]]
  /\ out' = [h \in Guilds |-> IF h \in active THEN {"cog_load"} ELSE {}]
  /\ UNCHANGED <<active, voice, vc_play, afterq, pn, nextId, ops, ret, viewVars, volVars>>

(* queue_limit_set <max_per_add> [per_user_max] (an administrator's command);
   per = 0 stands for the argument left out *)
QueueLimitSet(g, max_per_add, per) ==
  LET m  == Max(1, max_per_add)
      pu == IF per = 0 THEN queue_per_user_max[g] ELSE Max(1, per)
  IN
  /\ Budget(g)
  /\ queue_limit_max' = [queue_limit_max EXCEPT ![g] = m]
  /\ queue_per_user_max' = [queue_per_user_max EXCEPT ![g] = pu]
  /\ user_mappings' = [user_mappings EXCEPT ![g] =
                          [set |-> TRUE, enabled |-> queue_limit_enabled[g],
                           max |-> m, per_user_max |-> pu]]
  /\ saved' = [saved EXCEPT ![g] = save_data(queues, user_mappings')]
  /\ out' = Out(g, {})
  /\ UNCHANGED <<active, queues, currentVars, voice, vc_play, afterq, auto_play_tasks, af,
                 play_locks, pn, cmd, npVars, fadeout_active, sourceVars,
                 queue_limit_enabled, nextId, ret, viewVars, volVars>>

(* ---- remove ---- *)
(* a command argument as typed: <<n>> is the text of the integer n, <<>> a
   text int() rejects (the default "" is one) *)
NotANumber == <<>>

(* a pop that always takes the last element *)
PopLast(seq, idx) == SubSeq(seq, 1, Len(seq) - 1)

(* queue_list.pop(idx), idx counted from 0 *)
PopAt(seq, idx) == SubSeq(seq, 1, idx) \o SubSeq(seq, idx + 2, Len(seq))

(* remove <position>: the whole command up to the send of its card *)
RemoveFromQueue(g, arg) ==
  LET queue == queues[g] IN
  /\ Budget(g)
  /\ IF arg = NotANumber
     THEN /\ out' = Out(g, {"remove_error"})
          /\ ret' = [fn |-> "remove", g |-> g, arg |-> arg, before |-> queue,
                     removed_song |-> NoTrack]
          /\ UNCHANGED <<queues, saved>>
     ELSE LET position == arg[1] IN
          IF queue = <<>> \/ position < 1 \/ position > Len(queue)
          THEN /\ out' = Out(g, {"remove_error"})
               /\ ret' = [fn |-> "remove", g |-> g, arg |-> arg, before |-> queue,
                          removed_song |-> NoTrack]
               /\ UNCHANGED <<queues, saved>>
          ELSE /\ queues' = [queues EXCEPT ![g] = PopAt(queue, position - 1)]
               /\ saved' = [saved EXCEPT ![g] = save_data(queues', user_mappings)]
               /\ out' = Out(g, {"removed"})
               /\ ret' = [fn |-> "remove", g |-> g, arg |-> arg, before |-> queue,
                          removed_song |-> queue[position]]
  /\ UNCHANGED <<active, currentVars, voice, vc_play, afterq, auto_play_tasks, af,
                 play_locks, pn, cmd, npVars, fadeout_active, sourceVars, limitVars,
                 nextId, user_mappings, viewVars, volVars>>

(* ---- shuffle (src/cogs/shuffle_displacing_first.py) ---- *)
(* an exchange that leaves both elements where they are *)
KeepBoth(seq, a, b) == seq

(* seq[a], seq[b] = seq[b], seq[a], with Python's indices from 0 *)
Swap(seq, a, b) == [seq EXCEPT ![a + 1] = seq[b + 1], ![b + 1] = seq[a + 1]]

(* a shuffle that leaves index 0 to chance *)
NoFirstSwap(seq, j0) == seq

(* `seq[0], seq[j0] = seq[j0], seq[0]` with j0 = rnd.randrange(1, n) *)
FirstSwap(seq, j0) == Swap(seq, 0, j0)

RECURSIVE ShuffleFrom(_, _, _)
(* `for i in range(1, n): j = rnd.randrange(i, n); swap i, j`, from i on;
   draws[i + 1] is the number drawn for i *)
ShuffleFrom(seq, i, draws) ==
  IF i >= Len(seq) THEN seq
  ELSE ShuffleFrom(Swap(seq, i, draws[i + 1]), i + 1, draws)

(* the numbers rnd.randrange can return for a sequence of length n:
   draws[1] is j0 in 1..n-1, draws[i + 1] is in i..n-1 *)
ValidDraws(n, draws) ==
  /\ n >= 2 => draws[1] \in 1..(n - 1)
  /\ \A i \in 1..(n - 1) : draws[i + 1] \in i..(n - 1)

shuffle_displacing_first_inplace(seq, draws) ==
  IF Len(seq) < 2 THEN seq
  ELSE ShuffleFrom(FirstSwap(seq, draws[1]), 1, draws)

(* every outcome of MaxTracks draws *)
Draws == [1..MaxTracks -> 0..(MaxTracks - 1)]

(* shuffle: the whole command, with the helper call it makes *)
ShuffleQueue(g, draws) ==
  LET items == queues[g]
      res   == shuffle_displacing_first_inplace(items, draws)
  IN
  /\ Budget(g)
  /\ ValidDraws(Len(items), draws)
  /\ IF items = <<>>
     THEN /\ out' = Out(g, {"deny"})
          /\ UNCHANGED <<queues, saved, ret>>
     ELSE /\ queues' = [queues EXCEPT ![g] = res]
          /\ saved' = [saved EXCEPT ![g] = save_data(queues', user_mappings)]
          /\ ret' = [fn |-> "shuffle", seq |-> items, result |-> res]
          /\ out' = Out(g, {})
  /\ UNCHANGED <<active, currentVars, voice, vc_play, afterq, auto_play_tasks, af,
                 play_locks, pn, cmd, npVars, fadeout_active, sourceVars, limitVars,
                 nextId, user_mappings, viewVars, volVars>>

(* shuffle_displacing_first_inplace called on a copy of the guild's queue *)
ShuffleCall(g, draws) ==
  /\ g \in active
  /\ ValidDraws(Len(queues[g]), draws)
  /\ ret' = [fn |-> "shuffle", seq |-> queues[g],
              result |-> shuffle_displacing_first_inplace(queues[g], draws)]
  /\ UNCHANGED <<active, queues, saved, currentVars, voice, vc_play, afterq,
                 auto_play_tasks, af, play_locks, pn, cmd, npVars, fadeout_active,
                 sourceVars, limitVars, nextId, ops, out, user_mappings, viewVars, volVars>>

(* ---- the queue manager panel (src/ui/queue_manager.py) ---- *)
(* The panel holds the guild's deque itself (self.queue) and one field of its
   own, selected_index.  Each callback runs from the interaction to its one
   await, the edit of the panel's message, which is its last statement.
   selected_song remembers which track the member picked in the dropdown. *)

(* a member uses the panel: a callback runs on the loop *)
Interact(g) ==
  g \in active /\ ~CancelPending /\ ~DirectPending /\ UNCHANGED <<ops, user_mappings>>

(* what a panel callback leaves alone *)
PanelFrame ==
  UNCHANGED <<active, saved, currentVars, voice, vc_play, afterq, auto_play_tasks, af,
              play_locks, pn, cmd, npVars, fadeout_active, sourceVars, limitVars, nextId,
              volVars>>

(* the record of a panel callback: the option value it was given, if any, and
   the track it removed or moved (NoTrack when it did neither) *)
PanelCall(g, op, arg, song) == [fn |-> "panel", arg |-> arg, song |-> song]

(* an insert that appends *)
InsertLast(seq, idx, x) == Append(seq, x)

(* items_local.insert(dst, track), dst counted from 0 *)
InsertAt(seq, idx, x) == SubSeq(seq, 1, idx) \o <<x>> \o SubSeq(seq, idx + 1, Len(seq))

(* the clamp of _refresh_select_options: a selection past the end is dropped *)
ClampIndex(index, q_len) ==
  IF index /= NoIndex /\ index[1] >= q_len THEN NoIndex ELSE index

(* song_select_cb: the member picks option idx0 of the song dropdown *)
SongSelect(g, idx0) ==
  /\ Interact(g)
  /\ IF 0 <= idx0 /\ idx0 < Len(queues[g])
     THEN /\ selected_index' = [selected_index EXCEPT ![g] = <<idx0>>]
          /\ selected_song' = [selected_song EXCEPT ![g] = queues[g][idx0 + 1].id]
     ELSE /\ selected_index' = [selected_index EXCEPT ![g] = NoIndex]
          /\ selected_song' = [selected_song EXCEPT ![g] = NoTrack.id]
  /\ ret' = PanelCall(g, "select", <<>>, NoTrack)
  /\ out' = Out(g, {})
  /\ UNCHANGED queues
  /\ PanelFrame

(* pos_select_cb: the member picks "Move to position dst + 1" *)
PosSelect(g, dst) ==
  LET items_local == queues[g]
      q_len_local == Len(items_local)
      chosen      == selected_index[g] /= NoIndex
      src         == selected_index[g][1]
      moves       == /\ q_len_local /= 0
                     /\ chosen
                     /\ 0 <= src /\ src < q_len_local /\ 0 <= dst /\ dst < q_len_local
                     /\ src /= dst
  IN
  /\ Interact(g)
  /\ IF moves
     THEN LET track == items_local[src + 1] IN
          /\ queues' = [queues EXCEPT ![g] = InsertAt(PopAt(items_local, src), dst, track)]
          /\ selected_index' = [selected_index EXCEPT ![g] = ClampIndex(<<dst>>, q_len_local)]
          /\ ret' = PanelCall(g, "move_to", <<dst>>, track)
          /\ out' = Out(g, {"move_to", "panel_moved"})
     ELSE /\ ret' = PanelCall(g, "move_to", <<dst>>, NoTrack)
          /\ out' = Out(g, IF q_len_local /= 0 /\ ~chosen
                           THEN {"move_to", "panel_select_first"} ELSE {"move_to"})
          /\ UNCHANGED <<queues, selected_index>>
  /\ UNCHANGED selected_song
  /\ PanelFrame

(* move_up (by = -1) and move_down (by = 1): the selected track, or the last
   (first) one when nothing is selected, changes places with its neighbour *)
MoveBy(g, by) ==
  LET items == queues[g]
      idx   == IF selected_index[g] /= NoIndex THEN selected_index[g][1]
               ELSE IF by < 0 THEN Len(items) - 1 ELSE 0
      moves == /\ items /= <<>>
               /\ IF by < 0 THEN ~(idx <= 0 \/ idx >= Len(items))
                            ELSE ~(idx < 0 \/ idx >= Len(items) - 1)
  IN
  /\ Interact(g)
  /\ IF moves
     THEN /\ queues' = [queues EXCEPT ![g] = Swap(items, idx, idx + by)]
          /\ selected_index' = [selected_index EXCEPT ![g] =
                                  ClampIndex(<<idx + by>>, Len(items))]
          /\ selected_song' = IF selected_index[g] /= NoIndex THEN selected_song
                              ELSE [selected_song EXCEPT ![g] = items[idx + 1].id]
          /\ ret' = PanelCall(g, IF by < 0 THEN "move_up" ELSE "move_down", <<>>,
                              items[idx + 1])
          /\ out' = Out(g, {"panel_moved"})
     ELSE /\ ret' = PanelCall(g, IF by < 0 THEN "move_up" ELSE "move_down", <<>>, NoTrack)
          /\ out' = Out(g, {})
          /\ UNCHANGED <<queues, viewVars>>
  /\ PanelFrame

(* remove_selected: the selected track, or the first one when nothing is
   selected, leaves the queue *)
RemoveSelected(g) ==
  LET items == queues[g]
      idx   == IF selected_index[g] /= NoIndex THEN selected_index[g][1] ELSE 0
  IN
  /\ Interact(g)
  /\ IF items /= <<>> /\ ~(idx < 0 \/ idx >= Len(items))
     THEN /\ queues' = [queues EXCEPT ![g] = PopAt(items, idx)]
          /\ selected_index' = [selected_index EXCEPT ![g] = NoIndex]
          /\ selected_song' = [selected_song EXCEPT ![g] = NoTrack.id]
          /\ ret' = PanelCall(g, "remove", <<>>, items[idx + 1])
          /\ out' = Out(g, {"panel_removed"})
     ELSE /\ ret' = PanelCall(g, "remove", <<>>, NoTrack)
          /\ out' = Out(g, {})
          /\ UNCHANGED <<queues, viewVars>>
  /\ PanelFrame

(* refresh: _sync_message alone *)
Refresh(g) ==
  /\ Interact(g)
  /\ selected_index' = [selected_index EXCEPT ![g] = ClampIndex(@, Len(queues[g]))]
  /\ selected_song' = IF selected_index'[g] = NoIndex
                      THEN [selected_song EXCEPT ![g] = NoTrack.id] ELSE selected_song
  /\ ret' = PanelCall(g, "refresh", <<>>, NoTrack)
  /\ out' = Out(g, {})
  /\ UNCHANGED queues
  /\ PanelFrame

(* ---- volume, _fade_in_volume ---- *)

(* the volume the ramp writes at its k-th step: initial + delta * k, with the
   initial 0.0001 taken as 0 *)
Ramp(target, k) == (target * k) \div FADE_IN_STEPS

(* one turn of the ramp's loop: the sleep ends and the transformer gets the
   next volume on the way to the target the task was created with; the task
   returns after the last step *)
FadeInStep(g) ==
  /\ ResumePlay
  /\ fade_in[g].on
  /\ sink_volume' = [sink_volume EXCEPT ![g] = Ramp(fade_in[g].target, fade_in[g].i + 1)]
  /\ fade_in' = [fade_in EXCEPT ![g].i = @ + 1,
                                ![g].on = fade_in[g].i + 1 < FADE_IN_STEPS]
  /\ out' = Out(g, {})
  /\ UNCHANGED <<active, queues, saved, currentVars, voice, vc_play, afterq,
                 auto_play_tasks, af, play_locks, pn, cmd, npVars, fadeout_active,
                 sourceVars, limitVars, nextId, volumes>>

(* volume, to the embed's send: a value outside 0..200 is refused, any other
   is stored in self.volumes *)
VolumeBegin(g, vol) ==
  /\ Budget(g)
  /\ FreeCmds /= {}
  /\ IF vol \notin 0..200
     THEN /\ out' = Out(g, {"volume_error"})
          /\ UNCHANGED <<volumes, cmd>>
     ELSE /\ volumes' = [volumes EXCEPT ![g] = vol]
          /\ cmd' = [cmd EXCEPT ![LowestFree(FreeCmds)] =
                       [pc |-> "vol_send", g |-> g, kind |-> "volume", user |-> 0,
                        slots |-> 0, n |-> vol]]
          /\ out' = Out(g, {"volume_set"})
  /\ UNCHANGED <<active, queues, saved, currentVars, voice, vc_play, afterq,
                 auto_play_tasks, af, play_locks, pn, npVars, fadeout_active,
                 sourceVars, limitVars, nextId, sink_volume, fade_in,
                 user_mappings, ret, viewVars>>

(* volume, after the send: the source that plays gets self.volumes[guild_id] *)
CmdVolumeSent(c) ==
  LET g == cmd[c].g IN
  /\ ResumePlay
  /\ cmd[c].pc = "vol_send"
  /\ sink_volume' = IF voice[g] /\ vc_play[g] /= NoTrack
                    THEN [sink_volume EXCEPT ![g] = volumes[g]]
                    ELSE sink_volume
  /\ cmd' = [cmd EXCEPT ![c] = FreeCmd]
  /\ out' = Out(g, {"volume_applied"})
  /\ UNCHANGED <<active, queues, saved, currentVars, voice, vc_play, afterq,
                 auto_play_tasks, af, play_locks, pn, npVars, fadeout_active,
                 sourceVars, limitVars, nextId, volumes, fade_in>>

(* ---- the next-state relation ---- *)
CommandStep ==
  \E g \in Guilds :
    \/ Join(g)
    \/ Leave(g)
    \/ AutofillSet(g)
    \/ AutofillUnset(g)
    \/ StopBegin(g)
    \/ SkipBegin(g)
    \/ ReloadBegin(g)
    \/ \E u \in Users : PlayUrl(g, u) \/ PlayBlank(g, u) \/ Playlist(g, u)

CommandResume ==
  \E c \in CmdIds :
    \/ \E n \in 0..MaxBatch : CmdScrapeDone(c, n)
    \/ CmdResolveDone(c)
    \/ CmdCheckPlay(c)
    \/ CmdFadeEnd(c)
    \/ CmdStopFinish(c)
    \/ \E dflt \in BOOLEAN : ReloadFinish(c, dflt)

PlayNextStep ==
  \E i \in PNIds :
    \/ PnAcquire(i)
    \/ \E ok \in BOOLEAN : PnLostDone(i, ok) \/ PnPrefetchDone(i, ok) \/ PnNpSent(i, ok)
    \/ PnPrebufferDone(i)
    \/ PnFailSent(i)

AutofillStep ==
  \E t \in AFIds :
    \/ AfTimerFire(t)
    \/ \E n \in 0..MaxBatch : AfFillDone(t, n)

PlayerStep ==
  \E g \in Guilds :
    \/ PlayerEnd(g)
    \/ \E s \in AllTracks : AfterPlaying(g, s)

CancelStep ==
  \/ \E t \in AFIds : AfCancelled(t)
  \/ \E i \in PNIds : PnCancelled(i)

Next == CommandStep \/ CommandResume \/ PlayNextStep \/ AutofillStep \/ PlayerStep \/ CancelStep

Spec == Init /\ [][Next]_vars

(* The event loop runs every coroutine that is ready and every callback posted
   to it, timers expire, and a track that plays comes to its end.  Members
   need not issue commands. *)
Fairness ==
  /\ WF_vars(CommandResume)
  /\ WF_vars(PlayNextStep)
  /\ WF_vars(AutofillStep)
  /\ WF_vars(PlayerStep)
  /\ WF_vars(CancelStep)

SpecLive == Init /\ [][Next]_vars /\ Fairness

(* ---- the two-invocation race on one guild ---- *)
(* The state in which the end-of-track callback and a playlist command both
   find nothing playing: track 1 was played and has ended, after_playing has
   posted its play_next task, and the command that appended tracks 2 and 3
   is about to test is_playing().  Spec reaches this state (RaceReached). *)
RaceQueue == NewTracks(2, 2, FALSE, 1)

RaceReached ==
  /\ queues[1] = RaceQueue
  /\ SavedQueue(1) = RaceQueue
  /\ current_song = NoTrack
  /\ voice[1] /\ vc_play[1] = NoTrack /\ afterq[1] = {}
  /\ auto_play_tasks[1] = NoTask /\ \A t \in AFIds : af[t] = FreeAF
  /\ ~play_locks[1]
  /\ pn = [i \in PNIds |-> IF i = 1 THEN PnTask(1) ELSE FreePN]
  /\ cmd = [c \in CmdIds |->
              IF c = 1 THEN [pc |-> "sent", g |-> 1, kind |-> "playlist", user |-> 1,
                             slots |-> 0, n |-> 2]
              ELSE FreeCmd]
  /\ song_index[1] = 1
  /\ np_track[1] = <<[song_index |-> 1, is_autofill |-> FALSE]>>
  /\ ~auto_playlist_urls[1]
  /\ nextId = 4
  /\ ops = 0

InitRace ==
  /\ active = {1}
  /\ queues = [g \in Guilds |-> IF g = 1 THEN RaceQueue ELSE <<>>]
  /\ saved = [g \in Guilds |-> save_data(queues, [h \in Guilds |-> NoEntry])]
  /\ song_start_time = None
  /\ voice = [g \in Guilds |-> g = 1]
  /\ vc_play = [g \in Guilds |-> NoTrack]
  /\ afterq = [g \in Guilds |-> {}]
  /\ auto_play_tasks = [g \in Guilds |-> NoTask]
  /\ af = [t \in AFIds |-> FreeAF]
  /\ play_locks = [g \in Guilds |-> FALSE]
  /\ song_index = [g \in Guilds |-> IF g = 1 THEN 1 ELSE 0]
  /\ np_track = [g \in Guilds |->
                   IF g = 1 THEN <<[song_index |-> 1, is_autofill |-> FALSE]>> ELSE <<>>]
  /\ fadeout_active = [g \in Guilds |-> FALSE]
  /\ auto_play_enabled = [g \in Guilds |-> g \in active]
  /\ auto_playlist_urls = [g \in Guilds |-> FALSE]
  /\ autofill_seed_rows = [g \in Guilds |-> FALSE]
  /\ queue_limit_enabled = [g \in Guilds |-> QUEUE_LIMIT_DEFAULT_ENABLED]
  /\ queue_limit_max = [g \in Guilds |-> QUEUE_LIMIT_MAX_PER_ADD]
  /\ queue_per_user_max = [g \in Guilds |-> QUEUE_MAX_PER_USER]
  /\ out = Out(1, {"after_playing", "spawn"})
  /\ user_mappings = [g \in Guilds |-> NoEntry]
  /\ ret = NoCall
  /\ InitView
  /\ InitSink
  /\ RaceReached

NextRace ==
  \/ \E c \in CmdIds : CmdCheckPlay(c)
  \/ \E i \in PNIds :
       \/ PnAcquire(i)
       \/ \E ok \in BOOLEAN : PnPrefetchDone(i, ok) \/ PnNpSent(i, ok)
       \/ PnPrebufferDone(i)
       \/ PnFailSent(i)
  \/ \E g \in Guilds :
       \/ PlayerEnd(g)
       \/ \E s \in AllTracks : AfterPlaying(g, s)

SpecRace == InitRace /\ [][NextRace]_vars

NotRaceReached == ~RaceReached

(* ---- the autofill task under join and play ---- *)
(* a guild with an autofill playlist, one more command than Spec, and the
   commands that cancel and schedule the autofill task *)
AutofillOps == MaxOps + 1

InitAutofill == InitCog(AutofillOps) /\ auto_playlist_urls[1]

NextAutofill ==
  \/ \E g \in Guilds :
       \/ Join(g)
       \/ \E u \in Users : PlayUrl(g, u)
  \/ \E c \in CmdIds : CmdCheckPlay(c)
  \/ \E i \in PNIds :
       \/ PnAcquire(i)
       \/ \E ok \in BOOLEAN : PnPrefetchDone(i, ok) \/ PnNpSent(i, ok)
       \/ PnPrebufferDone(i)
       \/ PnFailSent(i)
  \/ AutofillStep
  \/ PlayerStep
  \/ CancelStep

SpecAutofill == InitAutofill /\ [][NextAutofill]_vars


(* ---- fade-out under skip, stop and reload ---- *)
(* a guild without an autofill source, with three more commands than Spec *)
FadeOps == MaxOps + 3

InitFade == InitCog(FadeOps) /\ ~auto_playlist_urls[1]

NextFade ==
  \/ \E g \in Guilds :
       \/ SkipBegin(g)
       \/ StopBegin(g)
       \/ ReloadBegin(g)
       \/ \E u \in Users : PlayUrl(g, u)
  \/ \E c \in CmdIds :
       \/ CmdCheckPlay(c)
       \/ CmdFadeEnd(c)
       \/ CmdStopFinish(c)
       \/ ReloadFinish(c, FALSE)
  \/ \E i \in PNIds :
       \/ PnAcquire(i)
       \/ \E ok \in BOOLEAN : PnPrefetchDone(i, ok) \/ PnNpSent(i, ok)
       \/ PnPrebufferDone(i)
       \/ PnFailSent(i)
  \/ PlayerStep

SpecFade == InitFade /\ [][NextFade]_vars


(* ---- two guilds ---- *)
(* the bot serves every guild; the commands are those of SpecAutofill *)
InitGuilds == InitCogFor(Guilds, MaxOps)

SpecGuilds == InitGuilds /\ [][NextAutofill]_vars


(* ---- save_data and load_data on their own ---- *)
(* the queues a guild can hold: up to MaxBatch tracks with distinct ids *)
QueueInputs ==
  {<<>>} \cup {<<t>> : t \in AllTracks}
         \cup {<<p[1], p[2]>> : p \in {x \in AllTracks \X AllTracks : x[1].id < x[2].id}}

(* the "queue_limit" entries queue_limit_set can have written *)
EntryInputs ==
  {NoEntry} \cup {[set |-> TRUE, enabled |-> e, max |-> m, per_user_max |-> QUEUE_MAX_PER_USER] :
                    e \in BOOLEAN, m \in {1, QUEUE_LIMIT_MAX_PER_ADD}}

InitPersist ==
  /\ InitFields({1}, 0)
  /\ InitLimits
  /\ queues \in [Guilds -> QueueInputs]
  /\ \A g \in Guilds \ active : queues[g] = <<>>
  /\ user_mappings \in [Guilds -> EntryInputs]
  /\ \A g \in Guilds \ active : user_mappings[g] = NoEntry
  /\ saved = [g \in Guilds |->
                save_data([h \in Guilds |-> <<>>], [h \in Guilds |-> NoEntry])]

(* save_data(gid, self.queues, self.playlists, self.user_mappings) *)
SaveCall(g) ==
  /\ g \in active
  /\ ret = NoCall
  /\ saved' = [saved EXCEPT ![g] = save_data(queues, user_mappings)]
  /\ ret' = [fn |-> "save_data", g |-> g]
  /\ UNCHANGED <<active, queues, currentVars, voice, vc_play, afterq, auto_play_tasks, af,
                 play_locks, pn, cmd, npVars, fadeout_active, sourceVars, limitVars,
                 nextId, ops, out, user_mappings, viewVars, volVars>>

(* load_data(gid), then what the tables it returned hold for the guild id:
   loaded_queues[gid] and loaded_user_mappings[gid] (both are defaultdicts) *)
LoadCall(g) ==
  LET loaded == load_data(saved[g]) IN
  /\ ret = [fn |-> "save_data", g |-> g]
  /\ ret' = [fn |-> "load_data", g |-> g,
              queue |-> IF IntKey(g) \in DOMAIN loaded.queues
                        THEN loaded.queues[IntKey(g)] ELSE <<>>,
              mapping |-> IF IntKey(g) \in DOMAIN loaded.user_mappings
                          THEN loaded.user_mappings[IntKey(g)] ELSE NoEntry]
  /\ UNCHANGED <<active, queues, saved, currentVars, voice, vc_play, afterq,
                 auto_play_tasks, af, play_locks, pn, cmd, npVars, fadeout_active,
                 sourceVars, limitVars, nextId, ops, out, user_mappings, viewVars, volVars>>

NextPersist == \E g \in Guilds : SaveCall(g) \/ LoadCall(g)

SpecPersist == InitPersist /\ [][NextPersist]_vars

(* ---- restart ---- *)
(* play, queue_limit_set and restarts of the bot *)
RestartOps == MaxOps + 1

InitRestart == InitCog(RestartOps)

NextRestart ==
  \/ \E g \in Guilds :
       \/ \E u \in Users : PlayUrl(g, u)
       \/ \E m \in 1..QUEUE_LIMIT_MAX_PER_ADD + 1 : \E per \in 0..QUEUE_MAX_PER_USER + 1 :
            QueueLimitSet(g, m, per)
  \/ \E dflt \in BOOLEAN : Restart(dflt)
  \/ \E c \in CmdIds : CmdCheckPlay(c)
  \/ \E i \in PNIds :
       \/ PnAcquire(i)
       \/ \E ok \in BOOLEAN : PnPrefetchDone(i, ok) \/ PnNpSent(i, ok)
       \/ PnPrebufferDone(i)
       \/ PnFailSent(i)
  \/ PlayerStep
  \/ AutofillStep
  \/ CancelStep

SpecRestart == InitRestart /\ [][NextRestart]_vars


(* ---- shuffle on its own ---- *)
(* the queues of up to MaxTracks member tracks with distinct ids *)
ShuffleInputs ==
  LET T(k) == Track(k, FALSE, 1)
      ids == 1..MaxTracks
  IN {<<>>} \cup {<<T(a)>> : a \in ids}
            \cup {<<T(p[1]), T(p[2])>> : p \in {x \in ids \X ids : x[1] /= x[2]}}
            \cup {<<T(p[1]), T(p[2]), T(p[3])>> :
                    p \in {x \in ids \X ids \X ids :
                             x[1] /= x[2] /\ x[1] /= x[3] /\ x[2] /= x[3]}}

InitShuffle ==
  /\ InitFields({1}, MaxOps)
  /\ InitLimits
  /\ queues \in [Guilds -> ShuffleInputs]
  /\ \A g \in Guilds \ active : queues[g] = <<>>
  /\ user_mappings = [g \in Guilds |-> NoEntry]
  /\ saved = [g \in Guilds |-> save_data(queues, user_mappings)]

NextShuffle ==
  \E g \in Guilds : \E draws \in Draws : ShuffleQueue(g, draws) \/ ShuffleCall(g, draws)

SpecShuffle == InitShuffle /\ [][NextShuffle]_vars


(* ---- the admission helpers on their own ---- *)
(* requester ids a queued track can carry: the bot's, the members', one more *)
RequesterIds == 0..(NumUsers + 1)

(* queues of up to MaxTracks tracks, each tagged autofill or not and carrying
   any requester id *)
AdmissionQueues ==
  UNION {[1..n -> {Track(1, isAf, r) : isAf \in BOOLEAN, r \in RequesterIds}] :
           n \in 0..MaxTracks}

InitAdmission ==
  /\ InitFields({1}, 0)
  /\ queue_limit_enabled \in [Guilds -> BOOLEAN]
  /\ queue_limit_max \in [Guilds -> 1..MaxCap]
  /\ queue_per_user_max \in [Guilds -> 1..(QUEUE_MAX_PER_USER + 1)]
  /\ \A g \in Guilds \ active :
       /\ queue_limit_enabled[g] = QUEUE_LIMIT_DEFAULT_ENABLED
       /\ queue_limit_max[g] = QUEUE_LIMIT_MAX_PER_ADD
       /\ queue_per_user_max[g] = QUEUE_MAX_PER_USER
  /\ queues \in [Guilds -> AdmissionQueues]
  /\ \A g \in Guilds \ active : queues[g] = <<>>
  /\ user_mappings = [g \in Guilds |-> NoEntry]
  /\ saved = [g \in Guilds |-> save_data(queues, user_mappings)]

(* _enforce_queue_add_limit(gid, n, bypass=bypass) is called *)
EnforceCall(g, n, bypass) ==
  /\ g \in active
  /\ ret' = [fn |-> "enforce", g |-> g, n |-> n, bypass |-> bypass,
              result |-> _enforce_queue_add_limit(g, n, bypass)]
  /\ UNCHANGED <<active, queues, saved, currentVars, voice, vc_play, afterq,
                 auto_play_tasks, af, play_locks, pn, cmd, npVars, fadeout_active,
                 sourceVars, limitVars, nextId, ops, out, user_mappings, viewVars, volVars>>

(* _user_slots_remaining(gid, user_id) is called *)
SlotsCall(g, u) ==
  /\ g \in active
  /\ ret' = [fn |-> "slots", g |-> g, user |-> u,
              result |-> _user_slots_remaining(queues[g], queue_per_user_max[g], u)]
  /\ UNCHANGED <<active, queues, saved, currentVars, voice, vc_play, afterq,
                 auto_play_tasks, af, play_locks, pn, cmd, npVars, fadeout_active,
                 sourceVars, limitVars, nextId, ops, out, user_mappings, viewVars, volVars>>

NextAdmission ==
  \E g \in Guilds :
    \/ \E n \in 0..(MaxCap + 1) : \E bypass \in BOOLEAN : EnforceCall(g, n, bypass)
    \/ \E u \in RequesterIds : SlotsCall(g, u)

SpecAdmission == InitAdmission /\ [][NextAdmission]_vars


(* ---- admission denials ---- *)
(* a guild with an autofill playlist and one more command than Spec: join,
   play <url> and play (no url) *)
DenyOps == MaxOps + 1

InitDeny == InitCog(DenyOps) /\ auto_playlist_urls[1]

NextDeny ==
  \/ \E g \in Guilds :
       \/ Join(g)
       \/ \E u \in Users : PlayUrl(g, u) \/ PlayBlank(g, u)
  \/ \E c \in CmdIds :
       \/ \E n \in 0..MaxBatch : CmdScrapeDone(c, n)
       \/ CmdResolveDone(c)
       \/ CmdCheckPlay(c)
  \/ \E i \in PNIds :
       \/ PnAcquire(i)
       \/ \E ok \in BOOLEAN : PnPrefetchDone(i, ok) \/ PnNpSent(i, ok)
       \/ PnPrebufferDone(i)
       \/ PnFailSent(i)
  \/ AutofillStep
  \/ PlayerStep
  \/ CancelStep

SpecDeny == InitDeny /\ [][NextDeny]_vars


(* ---- _estimate_eta_seconds on its own ---- *)
(* the durations a track can carry: unknown, seconds as a number, "3:20",
   and a text that is no number *)
EtaDurations == {DurNone, DurInt(100), DurClock(<<3, 20>>), DurText}

(* the clock readings, in seconds past song_start_time *)
EtaElapsed == {0, 50, 300}

(* queues of up to MaxBatch tracks, of any durations *)
EtaQueues ==
  UNION {{[k \in 1..n |-> [Track(k + 1, FALSE, 1) EXCEPT !.duration = f[k]]] :
            f \in [1..n -> EtaDurations]} : n \in 0..MaxBatch}

(* a guild with a track playing or not and up to MaxBatch tracks queued *)
InitEta ==
  /\ active = {1}
  /\ current_song \in {NoTrack} \cup
        {[Track(1, FALSE, 1) EXCEPT !.duration = d] : d \in EtaDurations}
  /\ song_start_time = IF current_song = NoTrack THEN None ELSE "t"
  /\ queues \in [Guilds -> EtaQueues]
  /\ \A g \in Guilds \ active : queues[g] = <<>>
  /\ voice = [g \in Guilds |-> g \in active]
  /\ vc_play = [g \in Guilds |-> IF g \in active THEN current_song ELSE NoTrack]
  /\ afterq = [g \in Guilds |-> {}]
  /\ auto_play_tasks = [g \in Guilds |-> NoTask]
  /\ af = [t \in AFIds |-> FreeAF]
  /\ play_locks = [g \in Guilds |-> FALSE]
  /\ pn = [i \in PNIds |-> FreePN]
  /\ cmd = [c \in CmdIds |-> FreeCmd]
  /\ song_index = [g \in Guilds |-> 0]
  /\ np_track = [g \in Guilds |-> <<>>]
  /\ fadeout_active = [g \in Guilds |-> FALSE]
  /\ auto_play_enabled = [g \in Guilds |-> g \in active]
  /\ auto_playlist_urls = [g \in Guilds |-> FALSE]
  /\ autofill_seed_rows = [g \in Guilds |-> FALSE]
  /\ InitLimits
  /\ nextId = 1
  /\ ops = 0
  /\ out = NoOut
  /\ user_mappings = [g \in Guilds |-> NoEntry]
  /\ saved = [g \in Guilds |-> save_data(queues, user_mappings)]
  /\ ret = NoCall
  /\ InitView
  /\ InitSink

(* _estimate_eta_seconds(gid, position) is called *)
EtaCall(g, position, elapsed) ==
  /\ g \in active
  /\ position <= Len(queues[g]) + 1
  /\ ret' = [fn |-> "eta", g |-> g, position |-> position, elapsed |-> elapsed,
              result |-> _estimate_eta_seconds(g, position, elapsed)]
  /\ UNCHANGED <<active, queues, saved, currentVars, voice, vc_play, afterq,
                 auto_play_tasks, af, play_locks, pn, cmd, npVars, fadeout_active,
                 sourceVars, limitVars, nextId, ops, out, user_mappings, viewVars, volVars>>

(* _queue_eta_list(gid) is called *)
EtaListCall(g, elapsed) ==
  /\ g \in active
  /\ ret' = [fn |-> "eta_list", g |-> g, elapsed |-> elapsed,
              result |-> _queue_eta_list(g, elapsed)]
  /\ UNCHANGED <<active, queues, saved, currentVars, voice, vc_play, afterq,
                 auto_play_tasks, af, play_locks, pn, cmd, npVars, fadeout_active,
                 sourceVars, limitVars, nextId, ops, out, user_mappings, viewVars, volVars>>

NextEta ==
  \E g \in Guilds : \E elapsed \in EtaElapsed :
    \/ \E position \in 1..(MaxBatch + 1) : EtaCall(g, position, elapsed)
    \/ EtaListCall(g, elapsed)

SpecEta == InitEta /\ [][NextEta]_vars


(* ---- autofill eligibility on its own ---- *)
(* every guild with any setting of the autofill commands: enabled or not, a
   playlist URL or none, CSV rows or none *)
InitEligible ==
  /\ active = Guilds
  /\ current_song = NoTrack
  /\ song_start_time = None
  /\ queues = [g \in Guilds |-> <<>>]
  /\ voice = [g \in Guilds |-> TRUE]
  /\ vc_play = [g \in Guilds |-> NoTrack]
  /\ afterq = [g \in Guilds |-> {}]
  /\ auto_play_tasks = [g \in Guilds |-> NoTask]
  /\ af = [t \in AFIds |-> FreeAF]
  /\ play_locks = [g \in Guilds |-> FALSE]
  /\ pn = [i \in PNIds |-> FreePN]
  /\ cmd = [c \in CmdIds |-> FreeCmd]
  /\ song_index = [g \in Guilds |-> 0]
  /\ np_track = [g \in Guilds |-> <<>>]
  /\ fadeout_active = [g \in Guilds |-> FALSE]
  /\ auto_play_enabled \in [Guilds -> BOOLEAN]
  /\ auto_playlist_urls \in [Guilds -> BOOLEAN]
  /\ autofill_seed_rows \in [Guilds -> BOOLEAN]
  /\ InitLimits
  /\ nextId = 1
  /\ ops = 0
  /\ out = NoOut
  /\ user_mappings = [g \in Guilds |-> NoEntry]
  /\ saved = [g \in Guilds |-> save_data(queues, user_mappings)]
  /\ ret = NoCall
  /\ InitView
  /\ InitSink

(* _is_autofill_enabled(gid) is called; liked: _get_autofill_liked_raw would
   return tracks (listeners are in the voice channel and have liked tracks) *)
EligibleCall(g, liked) ==
  /\ g \in active
  /\ ret' = [fn |-> "eligible", g |-> g, liked |-> liked,
              result |-> _is_autofill_enabled(g)]
  /\ UNCHANGED <<active, queues, saved, currentVars, voice, vc_play, afterq,
                 auto_play_tasks, af, play_locks, pn, cmd, npVars, fadeout_active,
                 sourceVars, limitVars, nextId, ops, out, user_mappings, viewVars, volVars>>

NextEligible == \E g \in Guilds : \E liked \in BOOLEAN : EligibleCall(g, liked)

SpecEligible == InitEligible /\ [][NextEligible]_vars


(* ---- remove on its own ---- *)
(* what a member can type after `remove` *)
RemoveArgs == {NotANumber} \cup {<<n>> : n \in (0 - 1)..(MaxTracks + 1)}

NextRemove == \E g \in Guilds : \E arg \in RemoveArgs : RemoveFromQueue(g, arg)

SpecRemove == InitShuffle /\ [][NextRemove]_vars


(* ---- the queue manager panel beside play_next ---- *)
(* A track has just ended with tracks left in the queue: after_playing has
   posted the next play_next, which has not reached the lock yet.  A panel is
   open on the queue; no further command is issued, and every track opens. *)
InitPanel ==
  /\ active = {1}
  /\ queues \in [Guilds -> ShuffleInputs]
  /\ queues[1] /= <<>>
  /\ \A g \in Guilds \ active : queues[g] = <<>>
  /\ saved = [g \in Guilds |-> save_data(queues, [h \in Guilds |-> NoEntry])]
  /\ current_song = NoTrack
  /\ song_start_time = None
  /\ voice = [g \in Guilds |-> g = 1]
  /\ vc_play = [g \in Guilds |-> NoTrack]
  /\ afterq = [g \in Guilds |-> {}]
  /\ auto_play_tasks = [g \in Guilds |-> NoTask]
  /\ af = [t \in AFIds |-> FreeAF]
  /\ play_locks = [g \in Guilds |-> FALSE]
  /\ pn = [i \in PNIds |-> IF i = 1 THEN PnTask(1) ELSE FreePN]
  /\ cmd = [c \in CmdIds |-> FreeCmd]
  /\ song_index = [g \in Guilds |-> IF g = 1 THEN 1 ELSE 0]
  /\ np_track = [g \in Guilds |->
                   IF g = 1 THEN <<[song_index |-> 1, is_autofill |-> FALSE]>> ELSE <<>>]
  /\ fadeout_active = [g \in Guilds |-> FALSE]
  /\ auto_play_enabled = [g \in Guilds |-> g \in active]
  /\ auto_playlist_urls = [g \in Guilds |-> FALSE]
  /\ autofill_seed_rows = [g \in Guilds |-> FALSE]
  /\ InitLimits
  /\ nextId = MaxTracks + 1
  /\ ops = 0
  /\ out = Out(1, {"after_playing", "spawn"})
  /\ user_mappings = [g \in Guilds |-> NoEntry]
  /\ ret = NoCall
  /\ InitView
  /\ InitSink

NextPanel ==
  \/ \E g \in Guilds :
       \/ \E idx0 \in 0..(MaxTracks - 1) : SongSelect(g, idx0) \/ PosSelect(g, idx0)
       \/ \E by \in {-1, 1} : MoveBy(g, by)
       \/ RemoveSelected(g)
       \/ Refresh(g)
  \/ \E i \in PNIds :
       \/ PnAcquire(i)
       \/ PnPrefetchDone(i, TRUE)
       \/ PnPrebufferDone(i)
       \/ PnNpSent(i, TRUE)
  \/ PlayerStep

SpecPanel == InitPanel /\ [][NextPanel]_vars


(* ---- the purge of autofill tracks ---- *)
(* queues of up to MaxTracks tracks, each a member's or filler *)
PurgeQueues ==
  UNION {{[k \in 1..n |-> Track(k + 1, f[k], IF f[k] THEN BotUser ELSE 1)] :
            f \in [1..n -> BOOLEAN]} : n \in 0..MaxTracks}

(* nothing plays, or track 1 plays, a member's or filler *)
InitPurge ==
  /\ active = {1}
  /\ queues \in [Guilds -> PurgeQueues]
  /\ \A g \in Guilds \ active : queues[g] = <<>>
  /\ current_song \in {NoTrack, Track(1, FALSE, 1), Track(1, TRUE, BotUser)}
  /\ song_start_time = IF current_song = NoTrack THEN None ELSE "t"
  /\ voice = [g \in Guilds |-> g \in active]
  /\ vc_play = [g \in Guilds |-> IF g \in active THEN current_song ELSE NoTrack]
  /\ afterq = [g \in Guilds |-> {}]
  /\ auto_play_tasks = [g \in Guilds |-> NoTask]
  /\ af = [t \in AFIds |-> FreeAF]
  /\ play_locks = [g \in Guilds |-> FALSE]
  /\ pn = [i \in PNIds |-> FreePN]
  /\ cmd = [c \in CmdIds |-> FreeCmd]
  /\ song_index = [g \in Guilds |-> IF g \in active /\ current_song /= NoTrack THEN 1 ELSE 0]
  /\ np_track = [g \in Guilds |->
                   IF g \in active /\ current_song /= NoTrack
                   THEN <<[song_index |-> 1, is_autofill |-> current_song.autofill]>>
                   ELSE <<>>]
  /\ fadeout_active = [g \in Guilds |-> FALSE]
  /\ auto_play_enabled = [g \in Guilds |-> g \in active]
  /\ auto_playlist_urls = [g \in Guilds |-> g \in active]
  /\ autofill_seed_rows = [g \in Guilds |-> FALSE]
  /\ InitLimits
  /\ nextId = MaxTracks + 2
  /\ ops = MaxOps
  /\ out = NoOut
  /\ user_mappings = [g \in Guilds |-> NoEntry]
  /\ saved = [g \in Guilds |-> save_data(queues, user_mappings)]
  /\ ret = NoCall
  /\ InitView
  /\ InitSink

NextPurge ==
  \/ \E g \in Guilds : SkipAutofill(g) \/ ClearCall(g)
  \/ \E c \in CmdIds : CmdSkipPurge(c)

SpecPurge == InitPurge /\ [][NextPurge]_vars


(* ---- one autofill fill (_enqueue_autofill_batch) ---- *)
(* a candidate as the history, the scrape or the seed list gives it: whether
   its URL passes the filter of the fill, and the member it came from *)
RawItem(clean, by) == [clean |-> clean, by |-> by]

(* candidate lists of up to AUTOFILL_MAX_PULL + 1 entries *)
RawInputs ==
  UNION {[1..n -> {RawItem(c, 1) : c \in BOOLEAN}] : n \in 0..(AUTOFILL_MAX_PULL + 1)}

(* the outcomes of random.shuffle(seq) *)
Shuffled(seq) ==
  LET n == Len(seq)
  IN {[i \in 1..n |-> seq[p[i]]] :
        p \in {f \in [1..n -> 1..n] : \A a, b \in 1..n : f[a] = f[b] => a = b}}

(* a slice that keeps everything *)
TakeAll(seq, n) == seq

(* seq[:n] *)
Take(seq, n) == SubSeq(seq, 1, Min(Len(seq), n))

(* the end of _get_autofill_liked_raw: more than the target is shuffled and
   cut; sh is the outcome of the shuffle *)
LikedCap(raw, sh) == IF Len(raw) > AUTOFILL_MAX_PULL THEN Take(sh, AUTOFILL_MAX_PULL) ELSE raw

(* _enqueue_autofill_batch up to cleaned_raw.  liked: what
   _get_autofill_liked_raw returned; source: what the scrape of the guild's
   URL returned, or the guild's seed rows when it has no URL; sh: the outcome
   of the shuffle of source *)
FillPlan(g, liked, source, sh) ==
  LET liked_raw    == Take(liked, AUTOFILL_MAX_PULL)
      remaining    == Max(0, AUTOFILL_MAX_PULL - Len(liked_raw))
      fallback_raw == IF remaining > 0 /\ source /= <<>> THEN Take(sh, remaining) ELSE <<>>
      combined_raw == liked_raw \o fallback_raw
  IN [liked_raw |-> liked_raw, consulted |-> remaining > 0, fallback_raw |-> fallback_raw,
      cleaned_raw |-> SelectSeq(combined_raw, LAMBDA it : it.clean)]

(* a track that keeps what the resolver gave it *)
Untagged(t) == t

(* the stamps the fill puts on a resolved track *)
Tagged(t) == [t EXCEPT !.autofill = TRUE, !.requester_id = BotUser]

(* a fill runs: candidates in, tracks appended, the queue saved, the count
   returned.  A guild with a URL never reads its seed rows. *)
FillCall(g, liked_in, source) ==
  /\ g \in active
  /\ ~auto_playlist_urls[g] => ((source /= <<>>) <=> autofill_seed_rows[g])
  /\ \E lsh \in Shuffled(liked_in) : \E sh \in Shuffled(source) :
       LET plan     == FillPlan(g, LikedCap(liked_in, lsh), source, sh)
           n        == Len(plan.cleaned_raw)
           resolved == [k \in 1..n |-> Track(nextId + k - 1, FALSE, plan.cleaned_raw[k].by)]
       IN /\ nextId + n - 1 <= MaxTracks
          /\ \E tracks \in Shuffled(resolved) :
               /\ queues' = [queues EXCEPT ![g] = @ \o [k \in 1..n |-> Tagged(tracks[k])]]
               /\ saved' = IF n > 0 THEN [saved EXCEPT ![g] = save_data(queues', user_mappings)]
                           ELSE saved
               /\ nextId' = nextId + n
               /\ ret' = [fn |-> "fill", g |-> g, before |-> queues[g],
                          liked_in |-> Len(liked_in), liked |-> Len(plan.liked_raw),
                          consulted |-> plan.consulted,
                          fallback |-> Len(plan.fallback_raw), result |-> n]
               /\ out' = Out(g, IF n > 0 THEN {"af_append"} ELSE {"af_nothing"})
  /\ UNCHANGED <<active, currentVars, voice, vc_play, afterq, auto_play_tasks, af,
                 play_locks, pn, cmd, npVars, fadeout_active, sourceVars, limitVars,
                 ops, user_mappings, viewVars, volVars>>

(* an idle guild in the voice channel, with a URL, seed rows, both or neither;
   a member's track may have been queued while the fill was resolving *)
InitFill ==
  /\ active = {1}
  /\ queues \in [Guilds -> {<<>>, <<Track(1, FALSE, 1)>>}]
  /\ \A g \in Guilds \ active : queues[g] = <<>>
  /\ nextId = Len(queues[1]) + 1
  /\ current_song = NoTrack
  /\ song_start_time = None
  /\ voice = [g \in Guilds |-> g \in active]
  /\ vc_play = [g \in Guilds |-> NoTrack]
  /\ afterq = [g \in Guilds |-> {}]
  /\ auto_play_tasks = [g \in Guilds |-> NoTask]
  /\ af = [t \in AFIds |-> FreeAF]
  /\ play_locks = [g \in Guilds |-> FALSE]
  /\ pn = [i \in PNIds |-> FreePN]
  /\ cmd = [c \in CmdIds |-> FreeCmd]
  /\ song_index = [g \in Guilds |-> 0]
  /\ np_track = [g \in Guilds |-> <<>>]
  /\ fadeout_active = [g \in Guilds |-> FALSE]
  /\ auto_play_enabled = [g \in Guilds |-> g \in active]
  /\ auto_playlist_urls \in [Guilds -> BOOLEAN]
  /\ autofill_seed_rows \in [Guilds -> BOOLEAN]
  /\ \A g \in Guilds \ active : ~auto_playlist_urls[g] /\ ~autofill_seed_rows[g]
  /\ InitLimits
  /\ ops = 0
  /\ out = NoOut
  /\ user_mappings = [g \in Guilds |-> NoEntry]
  /\ saved = [g \in Guilds |-> save_data(queues, user_mappings)]
  /\ ret = NoCall
  /\ InitView
  /\ InitSink

NextFill ==
  \E g \in Guilds : \E liked_in \in RawInputs : \E source \in RawInputs :
    FillCall(g, liked_in, source)

SpecFill == InitFill /\ [][NextFill]_vars

(* ======================================================================= *)
(* The claims                                                              *)
(* ======================================================================= *)

InSection(g) == {i \in PNIds : pn[i].pc \in SectionPcs /\ pn[i].g = g}

(* C1: when play_next is invoked twice concurrently for a guild whose queue
   holds at least two tracks (SpecRace: the end-of-track callback and a
   playlist command both see nothing playing), exactly one track transition
   is started: an invocation opens the audio pipeline for a dequeued track
   only to start that track, never while the track the other invocation
   started is still playing. *)
C1_OneTransitionStarted ==
  \A g \in Guilds :
    ("open" \in out[g] /\ vc_play[g] /= NoTrack) => "play_started" \in out[g]

(* C2: at most one play_next invocation per guild is inside the section
   dequeue -> open -> now-playing post -> record/prune, and it holds the
   guild's lock; every other invocation is waiting for the lock or has left. *)
C2_OneInSection ==
  \A g \in Guilds :
    /\ Cardinality(InSection(g)) <= 1
    /\ InSection(g) /= {} => play_locks[g]
    /\ \A i \in PNIds : pn[i].g = g /\ i \notin InSection(g) => pn[i].pc = "wait"

(* C2 witness: one invocation is in the section while another one of the same
   guild waits for the lock *)
C2_Witness ==
  \E g \in Guilds : \E i, j \in PNIds :
    i \in InSection(g) /\ pn[j].g = g /\ pn[j].pc = "wait"

NoAutofillIn(q) == \A k \in 1..Len(q) : ~q[k].autofill

(* C3: at the moment a human request (play <url>, play, playlist) finishes
   appending its tracks, the guild's queue holds no autofill-tagged track. *)
C3_NoAutofillAfterHumanAppend ==
  \A g \in Guilds : "human_append" \in out[g] => NoAutofillIn(queues[g])

(* C4: with the limits fixed, the non-autofill tracks in the queue that are
   attributed to one non-privileged requester never exceed maxPerUser. *)
C4_PerUserCap ==
  \A g \in Guilds : \A u \in Users \ Admins :
    _count_user_queued(queues[g], u) <= queue_per_user_max[g]

LiveAutofill(g) ==
  {t \in AFIds : af[t].g = g /\ af[t].pc \in {"sleep", "fill"} /\ ~af[t].cancel}

(* C5: at most one autofill task per guild sleeps on its delay or fills
   (tasks whose cancellation is under way are not counted). *)
C5_OneAutofillTask ==
  \A g \in Guilds : Cardinality(LiveAutofill(g)) <= 1

(* C6: an autofill task that existed when a member's action (play, playlist,
   stop, leave) ran its cancellation never appends tracks and never invokes
   play_next afterwards: when such a task leaves its fill, the queue is as it
   was and the task has not gone on into play_next. *)
C6_NoActionAfterCancel ==
  [][\A t \in AFIds :
       (af[t].stale /\ af[t].pc = "fill" /\ af'[t].pc /= "fill")
         => /\ queues'[af[t].g] = queues[af[t].g]
            /\ af'[t].pc /= "play_next"]_vars

(* C7: when the timer of an autofill task fires and the queue is non-empty,
   or a track is current, or autofill is not eligible, the task ends
   silently (no append, no notification, no play_next); otherwise it starts
   the fill.  It goes on into play_next only from a fill that added a track. *)
C7_TimerFire ==
  [][\A t \in AFIds :
       LET g == af[t].g
           eligible == AUTOFILL_FEATURE /\ auto_play_enabled[g]
                       /\ (auto_playlist_urls[g] \/ autofill_seed_rows[g])
       IN /\ (af[t].pc = "sleep" /\ ~af[t].cancel /\ af'[t].pc /= "sleep")
               => IF queues[g] /= <<>> \/ current_song /= NoTrack \/ ~eligible
                  THEN /\ af'[t].pc = "free"
                       /\ queues' = queues /\ pn' = pn
                       /\ out'[g] = {"af_fire"}
                  ELSE /\ af'[t].pc = "fill"
                       /\ queues' = queues /\ pn' = pn
          /\ (af[t].pc /= "play_next" /\ af'[t].pc = "play_next")
               => /\ af[t].pc = "fill"
                  /\ Len(queues'[g]) > Len(queues[g])
                  /\ voice[g]]_vars

(* C7 witness: a timer has just fired and ended silently, the guild being busy *)
C7_Witness ==
  \E g \in Guilds : out[g] = {"af_fire"} /\ (queues[g] /= <<>> \/ current_song /= NoTrack)

(* C8: when the open of the dequeued track fails, the failure notice goes
   out, the track is neither re-queued nor made current, the lock is
   released, and a new play_next is started exactly when the queue is
   non-empty and voice is connected; that retry leads to the next track
   being dequeued unless the queue is emptied or voice is lost meanwhile. *)
C8_OpenFailure ==
  /\ [][\A i \in PNIds :
          LET g == pn[i].g IN
          (pn[i].pc = "fail_send" /\ ~OwnerCancelled(i) /\ pn'[i] /= pn[i])
            => /\ "fail_notice" \in out'[g]
               /\ queues'[g] = queues[g]
               /\ current_song' = current_song /\ current_song' /= pn[i].song
               /\ ~play_locks'[g]
               /\ IF queues[g] /= <<>> /\ voice[g]
                  THEN \E j \in PNIds : pn'[j] = PnTask(g)
                  ELSE pn'[i] = FreePN /\ "retry" \notin out'[g]]_vars
  /\ \A g \in Guilds :
       ("retry" \in out[g]) ~> ("dequeue" \in out[g] \/ queues[g] = <<>> \/ ~voice[g])

(* C8 witness: an open failed with tracks left in the queue and the retry
   was started *)
C8_Witness ==
  \E g \in Guilds : {"fail_notice", "retry"} \subseteq out[g] /\ queues[g] /= <<>>

(* C9: whenever no play_next invocation of a guild is inside the locked
   section, the guild's lock is free: every exit path (empty queue, lost
   voice, open failure, an exception of the voice client or the notifier,
   cancellation of the calling task) releases it. *)
C9_LockFreeWhenIdle ==
  \A g \in Guilds : InSection(g) = {} => ~play_locks[g]

(* C9 witness: voice_client.play raised inside the section, the invocation is
   gone and the lock is free *)
C9_Witness ==
  \E g \in Guilds : "play_raised" \in out[g] /\ InSection(g) = {} /\ ~play_locks[g]

(* C10: when after_playing runs for a track, current_song and
   song_start_time are cleared; with a non-empty queue and voice connected a
   play_next task is started, which leads to the front track being dequeued
   unless the queue is emptied or voice is lost meanwhile; with an empty
   queue the queue-empty notice goes out and _schedule_autofill_if_idle runs
   (an eligible guild without a pending task gets one). *)
C10_EndOfTrack ==
  /\ [][\A g \in Guilds :
          (afterq'[g] /= afterq[g] /\ afterq'[g] \subseteq afterq[g])
            => /\ current_song' = NoTrack /\ song_start_time' = None
               /\ IF queues[g] /= <<>> /\ voice[g]
                  THEN /\ \E j \in PNIds : pn[j].pc = "free" /\ pn'[j] = PnTask(g)
                       /\ "spawn" \in out'[g]
                  ELSE IF queues[g] = <<>>
                  THEN /\ {"queue_empty", "schedule"} \subseteq out'[g]
                       /\ pn' = pn
                       /\ IF auto_play_tasks[g] /= NoTask
                          THEN auto_play_tasks'[g] = auto_play_tasks[g]
                          ELSE IF AUTOFILL_FEATURE /\ auto_play_enabled[g]
                                  /\ (auto_playlist_urls[g] \/ autofill_seed_rows[g])
                          THEN /\ auto_play_tasks'[g] /= NoTask
                               /\ af'[auto_play_tasks'[g]].pc = "sleep"
                          ELSE auto_play_tasks'[g] = NoTask
                  ELSE pn' = pn /\ af' = af]_vars
  /\ \A g \in Guilds :
       ("spawn" \in out[g]) ~> ("dequeue" \in out[g] \/ queues[g] = <<>> \/ ~voice[g])

(* C10 witness: a track ended with tracks left in the queue; current_song is
   cleared and the play_next task is started *)
C10_Witness ==
  \E g \in Guilds :
    /\ {"after_playing", "spawn"} \subseteq out[g]
    /\ current_song = NoTrack /\ queues[g] /= <<>>
    /\ \E j \in PNIds : pn[j] = PnTask(g)

(* nothing of guild g is running or due, the autofill task aside: no
   play_next invocation, no command at an await, no `after` callback *)
Settled(g) ==
  /\ \A i \in PNIds : pn[i].g /= g
  /\ \A c \in CmdIds : cmd[c].g /= g
  /\ afterq[g] = {}

(* C11: a guild with voice connected and autofill eligible that has come to
   "queue empty and nothing playing" by the end of a track, an open failure
   of the last queued track or a fill that added nothing is not left there:
   once nothing else of the guild is running, an autofill task is pending
   (from such a state only a member's command could start playback again). *)
C11_KeptAlive ==
  \A g \in Guilds :
    ( /\ out[g] \cap {"after_playing", "fail_notice", "af_nothing"} /= {}
      /\ voice[g]
      /\ AUTOFILL_FEATURE /\ auto_play_enabled[g]
      /\ (auto_playlist_urls[g] \/ autofill_seed_rows[g])
      /\ queues[g] = <<>> /\ vc_play[g] = NoTrack
      /\ Settled(g) )
    => \E t \in AFIds : af[t].g = g /\ af[t].pc /= "free" /\ ~af[t].cancel

(* C12: the per-guild songIndex never decreases and is never reset: it
   changes only by +1, in the step in which a play_next invocation that has
   handed its track to the voice client goes on past the start, and every
   invocation that has started playback makes that step; every other
   operation (enqueue, skip, stop, reload, an empty-queue play_next, an open
   failure) leaves it unchanged. *)
C12_SongIndex ==
  [][\A g \in Guilds :
       /\ song_index'[g] /= song_index[g]
            => /\ song_index'[g] = song_index[g] + 1
               /\ \E i \in PNIds : pn[i].g = g /\ pn[i].pc = "prebuffer"
                                     /\ pn'[i].pc = "np_send"
       /\ \A i \in PNIds :
            (pn[i].g = g /\ pn[i].pc = "prebuffer" /\ pn'[i].pc /= "prebuffer")
              => song_index'[g] = song_index[g] + 1]_vars

Ramps(g) == {c \in CmdIds : cmd[c].pc = "fade" /\ cmd[c].g = g}

(* C13: fade-out is single-flight per guild: at most one fade-out ramp is in
   progress for a guild at any time, and a fade-out requested (by skip, stop
   or reload) while the guild's flag is set has started no ramp of its own
   and has stopped the sink at once. *)
C13_SingleFlightFade ==
  \A g \in Guilds :
    /\ Cardinality(Ramps(g)) <= 1
    /\ "fade_busy" \in out[g] => vc_play[g] = NoTrack /\ fadeout_active[g]

(* everything that belongs to guild g alone: its queue, its voice client and
   the coroutines and callbacks that run for it *)
GuildOwn(g) ==
  << queues[g], voice[g], vc_play[g], afterq[g], auto_play_tasks[g],
     [i \in PNIds |-> IF pn[i].g = g THEN pn[i] ELSE FreePN],
     [c \in CmdIds |-> IF cmd[c].g = g THEN cmd[c] ELSE FreeCmd],
     [t \in AFIds |-> IF af[t].g = g THEN af[t] ELSE FreeAF] >>

(* what guild g's members and g's autofill task observe: the queue, the
   current track and its start time, the ETA of a track added now, and
   whether the autofill timer would find the guild idle *)
Observable(g) ==
  << queues[g], current_song, song_start_time,
     _estimate_eta_seconds(g, Len(queues[g]) + 1, 0),
     queues[g] = <<>> /\ current_song = NoTrack >>

(* C14: guilds are independent: a step in which nothing of guild B runs (an
   operation performed for another guild) leaves B's observable state
   unchanged. *)
C14_GuildsIndependent ==
  [][\A b \in Guilds :
       GuildOwn(b)' = GuildOwn(b) => Observable(b)' = Observable(b)]_vars

(* no operation of guild g is under way: nothing of it runs or is due, and
   its autofill task, if any, is still asleep *)
Completed(g) ==
  /\ Settled(g)
  /\ \A t \in AFIds : af[t].g = g => af[t].pc = "sleep"

(* C15: once the queue-mutating operations of a guild have completed (append
   by play, playlist or autofill, pop-front by play_next, clear, autofill
   purge), the queue persisted in the guild's file equals the in-memory
   queue. *)
C15_SavedAfterMutation ==
  \A g \in Guilds : Completed(g) => SavedQueue(g) = queues[g]

(* C16: persistence round trip: for a guild state produced by valid
   operations, save_data followed by load_data for the same guild id gives
   back, under that guild id, the same ordered track list and the same
   per-guild settings. *)
C16_RoundTrip ==
  ret.fn = "load_data"
    => /\ ret.queue = queues[ret.g]
       /\ ret.mapping = user_mappings[ret.g]

(* C17: after a restart (cog_load has run for the guild) the guild's
   in-memory queue equals the queue last saved in its file, and the guild's
   rate-limit settings (enabled, maxPerAdd, maxPerUser) equal the settings
   last saved. *)
C17_RestoredOnRestart ==
  [][\A g \in active :
       LET e == saved[g].user_mappings[StrKey(g)] IN
       "cog_load" \in out'[g]
         => /\ queues'[g] = SavedQueue(g)
            /\ e.set => /\ queue_limit_enabled'[g] = e.enabled
                        /\ queue_limit_max'[g] = e.max
                        /\ queue_per_user_max'[g] = e.per_user_max]_vars

(* C18: for every sequence of length at least 2 and every choice of random
   draws, shuffle_displacing_first_inplace never leaves the element
   originally at index 0 at index 0; for length 0 or 1 it leaves the
   sequence unchanged. *)
C18_FirstDisplaced ==
  ret.fn = "shuffle"
    => IF Len(ret.seq) >= 2
       THEN ret.result[1] /= ret.seq[1]
       ELSE ret.result = ret.seq

(* C18 witness: a sequence of three tracks was shuffled and its last two
   tracks changed places as well *)
C18_Witness ==
  /\ ret.fn = "shuffle"
  /\ Len(ret.seq) = 3
  /\ ret.result[1] /= ret.seq[1]
  /\ ret.result[3] = ret.seq[2]

(* C19: _enforce_queue_add_limit(gid, n, bypass) returns (n, no notice) for
   every n when the per-add limit is off or the caller is privileged;
   otherwise it returns (min(n, cap), notice), the notice being there exactly
   when n > cap: the special wording when cap = 3, the template carrying the
   cap otherwise. *)
C19_EnforceAddLimit ==
  ret.fn = "enforce"
    => LET cap == queue_limit_max[ret.g]
           n   == ret.n
       IN IF ret.bypass \/ ~queue_limit_enabled[ret.g]
          THEN ret.result = <<n, <<>>>>
          ELSE /\ ret.result[1] = (IF n <= cap THEN n ELSE cap)
               /\ (ret.result[2] /= <<>>) <=> (n > cap)
               /\ n > cap =>
                    ret.result[2] =
                      IF cap = 3
                      THEN <<"You can only enter 3 songs at a time into the queue.">>
                      ELSE <<"You can only enter up to **", cap,
                             "** songs at a time into the queue.">>

(* C19 witness: cap 3 and n 5 gave 3 with the special notice *)
C19_Witness ==
  /\ ret.fn = "enforce" /\ ret.n = 5 /\ ~ret.bypass
  /\ queue_limit_enabled[ret.g] /\ queue_limit_max[ret.g] = 3
  /\ ret.result = <<3, <<"You can only enter 3 songs at a time into the queue.">>>>

(* C20: _user_slots_remaining(gid, user) equals max(0, maxPerUser - k), k
   being the number of queued tracks that are not autofill-tagged and whose
   requester id is the user; autofill-tagged tracks reduce nobody's slots,
   whatever requester id they carry, and the result is never negative. *)
C20_SlotsRemaining ==
  ret.fn = "slots"
    => LET q   == queues[ret.g]
           cap == queue_per_user_max[ret.g]
           k   == Cardinality({i \in 1..Len(q) :
                                ~q[i].autofill /\ q[i].requester_id = ret.user})
       IN /\ ret.result = (IF cap - k >= 0 THEN cap - k ELSE 0)
          /\ ret.result >= 0
          /\ (\A i \in 1..Len(q) : q[i].autofill) => ret.result = cap

(* C20 witness: the user has more member tracks queued than the cap, next to
   an autofill track that carries the user's id, and has no slot left *)
C20_Witness ==
  /\ ret.fn = "slots" /\ ret.result = 0
  /\ LET q == queues[ret.g] IN
       /\ Cardinality({i \in 1..Len(q) : ~q[i].autofill /\ q[i].requester_id = ret.user})
            > queue_per_user_max[ret.g]
       /\ \E i \in 1..Len(q) : q[i].autofill /\ q[i].requester_id = ret.user

(* C21: an admission denial changes nothing for the rejected portion: the
   step in which a play request is rejected for want of per-user slots leaves
   the guild's queue exactly as it was (same tracks, same order), and a bulk
   request that is admitted in part appends the admitted tracks, at most
   maxPerAdd of them for a member, behind the queue as it was. *)
C21_DenialChangesNothing ==
  [][\A g \in Guilds :
       /\ "deny" \in out'[g] => queues'[g] = queues[g]
       /\ \A c \in CmdIds :
            (cmd[c].g = g /\ cmd[c].pc = "resolve" /\ cmd'[c].pc /= "resolve")
              => /\ Len(queues'[g]) = Len(queues[g]) + cmd[c].n
                 /\ SubSeq(queues'[g], 1, Len(queues[g])) = queues[g]
                 /\ cmd[c].user \notin Admins /\ queue_limit_enabled[g]
                      => cmd[c].n <= queue_limit_max[g]]_vars

(* the seconds a duration stands for, <<>> when it stands for none *)
C22_Seconds(d) ==
  IF d = DurInt(100) THEN <<100>>
  ELSE IF d = DurClock(<<3, 20>>) THEN <<200>>
  ELSE <<>>

(* C22: _estimate_eta_seconds(gid, position) returns unknown (no number)
   whenever the current track or a queued track strictly ahead of the
   position has an unknown duration, and the exact sum (what is left of the
   current track plus the durations of the tracks strictly ahead) when all
   of them are known. *)
C22_EtaUnknownOrExact ==
  ret.fn = "eta"
    => LET q      == queues[ret.g]
           ahead  == 1..(ret.position - 1)
           cur    == current_song /= NoTrack
           unknown ==
             \/ cur /\ C22_Seconds(current_song.duration) = <<>>
             \/ \E k \in ahead : C22_Seconds(q[k].duration) = <<>>
           left   == IF ~cur THEN 0
                     ELSE IF C22_Seconds(current_song.duration)[1] >= ret.elapsed
                     THEN C22_Seconds(current_song.duration)[1] - ret.elapsed
                     ELSE 0
           first  == IF 1 \in ahead THEN C22_Seconds(q[1].duration)[1] ELSE 0
           second == IF 2 \in ahead THEN C22_Seconds(q[2].duration)[1] ELSE 0
       IN IF unknown THEN ret.result[1] = <<>>
          ELSE ret.result[1] = <<left + first + second>>

(* the entries of a now-playing log *)
LogEntries(log) == {log[k] : k \in 1..Len(log)}

(* C23: now-playing pruning removes an autofill-tagged log entry only when
   the current songIndex is more than REMOVE_NP_AFTER_SONGS songs ahead of
   the entry's song_index; an autofill entry that is that many songs behind
   or fewer stays in the log. *)
C23_PruneBeyondWindow ==
  [][\A g \in Guilds :
       "np_posted" \in out'[g]
         => \A e \in LogEntries(np_track[g]) :
              (e.is_autofill /\ song_index'[g] - e.song_index <= REMOVE_NP_AFTER_SONGS)
                => e \in LogEntries(np_track'[g])]_vars

(* C24: across playbacks and prunes, a now-playing log entry whose track was
   not autofill-tagged is never removed from the log (the message of an entry
   is deleted only in the branch that drops the entry), however far behind
   the current songIndex it is. *)
C24_HumanEntriesKept ==
  [][\A g \in Guilds : \A e \in LogEntries(np_track[g]) :
       ~e.is_autofill => e \in LogEntries(np_track'[g])]_vars

(* C24 witness: a prune has just run with a non-autofill entry in the log
   that is REMOVE_NP_AFTER_SONGS songs behind *)
C24_Witness ==
  \E g \in Guilds :
    /\ "np_posted" \in out[g]
    /\ \E e \in LogEntries(np_track[g]) :
         ~e.is_autofill /\ song_index[g] - e.song_index >= REMOVE_NP_AFTER_SONGS

(* C25: autofill eligibility for a guild holds exactly when the global
   feature flag is on and the guild's enabled flag is on and at least one
   source is available: a configured playlist URL, a non-empty CSV list, or
   liked tracks of the listeners present. *)
C25_EligibleIffSource ==
  ret.fn = "eligible"
    => (ret.result <=>
          /\ AUTOFILL_FEATURE
          /\ auto_play_enabled[ret.g]
          /\ (auto_playlist_urls[ret.g] \/ autofill_seed_rows[ret.g] \/ ret.liked))

(* C26: remove by 1-based position: when the position is outside
   1..len(queue) (or the queue is empty, or the argument is no number) the
   command reports a failure and the queue is unchanged; when it is in range
   exactly the track at that position is removed and the other tracks keep
   their order. *)
C26_RemoveAt ==
  ret.fn = "remove"
    => LET q == ret.before
           g == ret.g
       IN IF ret.arg = <<>> \/ ret.arg[1] \notin 1..Len(q)
          THEN queues[g] = q /\ out[g] = {"remove_error"}
          ELSE /\ Len(queues[g]) = Len(q) - 1
               /\ \A k \in 1..(Len(q) - 1) :
                    queues[g][k] = IF k < ret.arg[1] THEN q[k] ELSE q[k + 1]
               /\ ret.removed_song = q[ret.arg[1]]
               /\ out[g] = {"removed"}

(* C26 witness: the middle one of three tracks was removed *)
C26_Witness ==
  /\ ret.fn = "remove" /\ Len(ret.before) = 3 /\ ret.arg = <<2>>
  /\ queues[ret.g] = <<ret.before[1], ret.before[3]>>

(* the tracks of guild g that a play_next invocation has dequeued and still
   holds, and the track that plays *)
C27_Taken(g) ==
  {pn[i].song : i \in {j \in PNIds : pn[j].g = g /\ pn[j].song /= NoTrack}}
    \cup ({vc_play[g]} \ {NoTrack})

(* C27: consumption is FIFO.  Every play_next that dequeues takes the track
   at the front of the queue and leaves the rest in order; the queue holds
   its tracks in the order of their appends (track ids count the appends),
   every track taken from it was appended before every track still queued,
   and a track is started only by the invocation that dequeued it, under the
   guild's lock: so tracks start playing in the order in which they were
   appended, also across open failures and concurrent appends. *)
C27_Fifo ==
  /\ [][\A g \in Guilds :
          /\ "dequeue" \in out'[g]
               => /\ queues[g] /= <<>>
                  /\ queues'[g] = Tail(queues[g])
                  /\ \E i \in PNIds : pn[i].pc = "wait" /\ pn[i].g = g
                                        /\ pn'[i].song = Head(queues[g])
          /\ "play_started" \in out'[g]
               => /\ play_locks[g]
                  /\ \E i \in PNIds : pn[i].pc = "prefetch" /\ pn[i].g = g
                                        /\ vc_play'[g] = pn[i].song
                                        /\ \A j \in PNIds \ {i} :
                                             pn[j].g = g => pn[j].pc = "wait"]_vars
  /\ [](\A g \in Guilds :
          /\ \A k \in 1..(Len(queues[g]) - 1) : queues[g][k].id < queues[g][k + 1].id
          /\ \A t \in C27_Taken(g) : \A k \in 1..Len(queues[g]) : t.id < queues[g][k].id)

(* C27 witness: three member tracks were appended; the first one was
   dequeued by play_next (the file still has it at the front) and was never
   played, its open having failed; the second one has just been started and
   the third one waits in the queue *)
C27_Witness ==
  \E g \in Guilds :
    /\ "play_started" \in out[g]
    /\ vc_play[g].id = 2
    /\ song_index[g] = 0
    /\ queues[g] /= <<>> /\ ~Head(queues[g]).autofill
    /\ SavedQueue(g) /= <<>> /\ Head(SavedQueue(g)).id = 1

(* C28: no play_next invocation blocks for ever, provided external calls
   return: whatever invocations are waiting for a guild's lock or are inside
   the locked section, a state follows in which all of them have returned
   (none waits for ever, none stays in the section), and a held lock always
   has a holder that is at an external call (never one that itself waits for
   play_next): the open-failure retry, the end-of-track re-entry and the
   autofill hand-off do not wait on the lock they hold. *)
C28_NoBlocking ==
  /\ []<>(\A i \in PNIds : pn[i].pc = "free")
  /\ [](\A g \in Guilds :
          play_locks[g] => \E i \in PNIds : pn[i].g = g /\ pn[i].pc \in SectionPcs)

(* C28 witness: the autofill task has handed off to play_next while another
   invocation of the guild holds the lock, and waits for it *)
C28_Witness ==
  \E i \in PNIds :
    /\ pn[i].pc = "wait" /\ pn[i].owner > 0
    /\ play_locks[pn[i].g]
    /\ ~af[pn[i].owner].cancel

(* C29: play_next on an empty queue returns without error and changes
   nothing: the queue, current_song, song_start_time, songIndex, the
   now-playing log and what plays are as before, no audio source is opened,
   the lock is free again, and the autofill task handle is unchanged by the
   invocation (when the caller is the autofill task, that task goes on to its
   own `finally`, which clears the handle). *)
C29_EmptyQueueNoop ==
  [][\A g \in Guilds :
       "pn_empty" \in out'[g]
         => \E i \in PNIds :
              /\ pn[i].pc = "wait" /\ pn[i].g = g /\ queues[g] = <<>>
              /\ pn'[i] = FreePN
              /\ \A j \in PNIds \ {i} : pn'[j] = pn[j]
              /\ play_locks' = play_locks /\ ~play_locks'[g]
              /\ queues' = queues /\ saved' = saved
              /\ current_song' = current_song /\ song_start_time' = song_start_time
              /\ song_index' = song_index /\ np_track' = np_track
              /\ vc_play' = vc_play /\ afterq' = afterq
              /\ out'[g] = {"pn_empty"}
              /\ IF pn[i].owner = 0
                 THEN auto_play_tasks' = auto_play_tasks /\ af' = af
                 ELSE /\ af'[pn[i].owner] = FreeAF
                      /\ \A h \in Guilds \ {g} : auto_play_tasks'[h] = auto_play_tasks[h]]_vars

(* C29 witness: an invocation has just found the queue empty while a track
   plays and is current *)
C29_Witness ==
  \E g \in Guilds :
    /\ "pn_empty" \in out[g]
    /\ vc_play[g] /= NoTrack /\ current_song = vc_play[g]
    /\ song_index[g] > 0 /\ np_track[g] /= <<>>

(* C30: no track is silently lost: every track that a play_next invocation
   has taken from the queue has, when the invocation ends, been started and
   made current (the invocation ends at its now-playing post) or been
   reported by the playback-failure notice; under every interleaving of
   commands, end-of-track callbacks, autofill hand-off and cancellation. *)
C30_NoTrackLost ==
  [][\A i \in PNIds :
       (pn[i].song /= NoTrack /\ pn'[i].song = NoTrack)
         => \/ pn[i].pc = "np_send" /\ current_song = pn[i].song
            \/ "fail_notice" \in out'[pn[i].g]]_vars

(* C31: a fade-out stops only the track that was playing when it was
   requested: the stop at the end of the ramp never stops a track that
   started while the ramp slept. *)
C31_FadeStopsItsTrack ==
  [][\A c \in CmdIds :
       (cmd[c].pc = "fade" /\ cmd'[c].pc /= "fade" /\ vc_play[cmd[c].g] /= NoTrack)
         => vc_play[cmd[c].g].id = cmd[c].n]_vars

(* C32: in the queue manager a remove or a move acts on the track the member
   selected, whatever play_next or another command did to the queue between
   the selection and the action. *)
C32_ActsOnSelected ==
  [][\A g \in Guilds :
       (out'[g] \cap {"panel_removed", "panel_moved"} /= {} /\ selected_index[g] /= NoIndex)
         => ret'.song.id = selected_song[g]]_vars

(* C35: move to position: for valid distinct indices src and dst the queue
   afterwards holds the same tracks, the selected one at index dst and the
   others in their previous relative order; when src or dst is out of range,
   src equals dst or nothing is selected, the queue is unchanged. *)
C35_MoveToPosition ==
  [][\A g \in Guilds :
       "move_to" \in out'[g] =>
         LET before == queues[g]
             after  == queues'[g]
             n      == Len(before)
             dst    == ret'.arg[1]
             chosen == selected_index[g] /= NoIndex
             src    == selected_index[g][1]
         IN IF chosen /\ src \in 0..(n - 1) /\ dst \in 0..(n - 1) /\ src /= dst
            THEN /\ Len(after) = n
                 /\ after[dst + 1] = before[src + 1]
                 /\ SelectSeq(after, LAMBDA t : t /= before[src + 1])
                      = SelectSeq(before, LAMBDA t : t /= before[src + 1])
            ELSE after = before]_vars

(* the last of three queued tracks has just been moved to the front *)
C35_Witness ==
  /\ {"move_to", "panel_moved"} \subseteq out[1]
  /\ Len(queues[1]) = MaxTracks
  /\ selected_index[1] = <<0>>
  /\ queues[1][1] = ret.song
  /\ ret.song.id = selected_song[1]

(* C33: the whole-queue estimate agrees with the per-position estimate: entry
   p of _queue_eta_list equals the seconds of _estimate_eta_seconds(gid, p)
   read at the same moment, and both are unknown in the same cases. *)
C33_ListAgreesWithEstimate ==
  ret.fn = "eta_list" =>
    \A p \in 1..Len(queues[ret.g]) :
      ret.result[p] = _estimate_eta_seconds(ret.g, p, ret.elapsed)[1]

(* the orders of seq in which its first element is not first *)
C34_Displaced(seq) ==
  LET n == Len(seq)
  IN {[i \in 1..n |-> seq[f[i]]] :
        f \in {h \in [1..n -> 1..n] : (\A a, b \in 1..n : h[a] = h[b] => a = b) /\ h[1] /= 1}}

(* C34: for a queue of n >= 2 distinct tracks the results of
   shuffle_displacing_first_inplace over all random draws are exactly the
   permutations of the input whose first track is not the original first
   one: every result is such a permutation and each of them is the result of
   some draws. *)
C34_AllDisplacedPermutations ==
  /\ (ret.fn = "shuffle" /\ Len(ret.seq) >= 2) => ret.result \in C34_Displaced(ret.seq)
  /\ \A g \in active :
       Len(queues[g]) >= 2 =>
         {shuffle_displacing_first_inplace(queues[g], d) :
            d \in {x \in Draws : ValidDraws(Len(queues[g]), x)}} = C34_Displaced(queues[g])

(* three tracks were shuffled into the rotation that puts the last one first *)
C34_Witness ==
  /\ ret.fn = "shuffle"
  /\ Len(ret.seq) = MaxTracks
  /\ ret.result = <<ret.seq[3], ret.seq[1], ret.seq[2]>>

(* C36: purging autofill removes exactly the autofill-tagged tracks: after
   _clear_autofill_from_queue and after `skip autofill` the queue is the
   previous queue without its autofill tracks, the others in the same order,
   and the count `skip autofill` reports is the number of tracks removed. *)
C36_PurgeExact ==
  ret.fn \in {"purge", "clear"} =>
    /\ queues[ret.g] = SelectSeq(ret.before, LAMBDA t : ~t.autofill)
    /\ ret.fn = "purge" => ret.removed = Len(ret.before) - Len(queues[ret.g])

(* skip autofill has stopped the filler that played and removed the two
   filler tracks around a member's track *)
C36_Witness ==
  /\ ret.fn = "purge"
  /\ ret.removed_current
  /\ ret.removed = 2
  /\ Len(ret.before) = MaxTracks
  /\ ~ret.before[2].autofill
  /\ queues[1] = <<ret.before[2]>>
  /\ "purged" \in out[1]

(* C37: one autofill fill appends at most AUTOFILL_MAX_PULL tracks: the
   liked-history candidates are capped at the target, the fallback source
   supplies at most the remaining capacity, and it is not consulted when the
   liked candidates already reach the target. *)
C37_FillWithinTarget ==
  ret.fn = "fill" =>
    /\ Len(queues[ret.g]) - Len(ret.before) <= AUTOFILL_MAX_PULL
    /\ ret.liked <= AUTOFILL_MAX_PULL
    /\ ret.liked + ret.fallback <= AUTOFILL_MAX_PULL
    /\ ret.liked_in >= AUTOFILL_MAX_PULL => (~ret.consulted /\ ret.fallback = 0)

(* a fill took one liked candidate and one of the three the fallback offered *)
C37_Witness ==
  /\ ret.fn = "fill"
  /\ ret.liked = 1
  /\ ret.consulted
  /\ ret.fallback = 1
  /\ ret.result = AUTOFILL_MAX_PULL
  /\ Len(queues[1]) = MaxTracks

(* ---- the volume command beside a starting track ---- *)
VolumeOps == MaxOps + 1
VolumeInputs == {50, 100, 300}

InitVolume == InitCog(VolumeOps) /\ ~auto_playlist_urls[1]

NextVolume ==
  \/ \E g \in Guilds :
       \/ \E u \in Users : PlayUrl(g, u)
       \/ \E vol \in VolumeInputs : VolumeBegin(g, vol)
       \/ FadeInStep(g)
  \/ \E c \in CmdIds :
       \/ CmdCheckPlay(c)
       \/ CmdVolumeSent(c)
  \/ \E i \in PNIds :
       \/ PnAcquire(i)
       \/ \E ok \in BOOLEAN : PnPrefetchDone(i, ok) \/ PnNpSent(i, ok)
       \/ PnPrebufferDone(i)
       \/ PnFailSent(i)
  \/ PlayerStep

SpecVolume == InitVolume /\ [][NextVolume]_vars

(* the tracks a fill appended to the queue it found *)
C38_Appended ==
  SubSeq(queues[ret.g], Len(ret.before) + 1, Len(queues[ret.g]))

(* C38: every track a fill appends is tagged as autofill and carries the
   bot's requester id, never a member's, and the count the fill returns is
   the number of tracks it appended. *)
C38_FillTagsTracks ==
  ret.fn = "fill" =>
    /\ SubSeq(queues[ret.g], 1, Len(ret.before)) = ret.before
    /\ \A k \in 1..Len(C38_Appended) :
         /\ C38_Appended[k].autofill
         /\ C38_Appended[k].requester_id = BotUser
         /\ C38_Appended[k].requester_id \notin Users
    /\ ret.result = Len(C38_Appended)

(* a fill appended two tracks behind a member's track *)
C38_Witness ==
  /\ ret.fn = "fill"
  /\ ret.result = 2
  /\ ret.before /= <<>>
  /\ ~queues[1][1].autofill
  /\ queues[1][3].autofill

(* C39: once the fade-in of the track that plays has finished and no volume
   command is still between its send and its write, the sink's volume is the
   guild's configured volume, also when the volume was changed after the
   track's start. *)
C39_SinkAtConfiguredVolume ==
  \A g \in Guilds :
    (/\ vc_play[g] /= NoTrack
     /\ ~fade_in[g].on
     /\ fade_in[g].i = FADE_IN_STEPS
     /\ \A c \in CmdIds : ~(cmd[c].pc = "vol_send" /\ cmd[c].g = g))
      => sink_volume[g] = volumes[g]

(* a fade-out ramp of the loaded cog is executing for the guild *)
C40_RampRuns(g) ==
  \E c \in CmdIds : cmd[c].pc = "fade" /\ cmd[c].g = g /\ cmd[c].kind /= "skip_old"

(* C40: the guild's fade-out flag is set only while a fade-out ramp of the
   guild is executing, and a fade-out request is turned away as a double
   fade only while such a ramp is executing, never because of a ramp that
   has ended. *)
C40_FlagOnlyWhileRamp ==
  /\ [](\A g \in Guilds : fadeout_active[g] => C40_RampRuns(g))
  /\ [][\A g \in Guilds : "fade_busy" \in out'[g] => C40_RampRuns(g)]_vars

(* a ramp has just ended: the flag is down and no ramp is left *)
C40_Witness ==
  \E g \in Guilds :
    /\ "fade_done" \in out[g]
    /\ ~fadeout_active[g]
    /\ ~C40_RampRuns(g)
    /\ song_index[g] >= 1

====
